---- MODULE Spec2Model ----
(***************************************************************************)
(* Fixed-timestep 2D rigid-body simulator (core/simulator.py) with its     *)
(* wheel motors (middle_level_library/motors.py).                          *)
(*                                                                         *)
(* Python floats are modelled as fixed-point integers:                     *)
(*   length mm, angle mrad, time ms, velocity mm/s, angular velocity       *)
(*   mrad/s, mass kg, inertia kg*m^2, force mN, impulse mN*s,              *)
(*   dimensionless coefficients (damping, friction, commands) per mille.   *)
(* Every division rounds to the nearest integer, symmetric about zero.     *)
(***************************************************************************)
EXTENDS Integers, Sequences, FiniteSets, TLC

\* ------------------------------------------------------------------------
\* Bounds of the model
\* ------------------------------------------------------------------------
\* step() is not called once step_index has reached MaxSteps
MaxSteps == 3
\* trace_log holds at most MaxTrace records
MaxTrace == 2
\* number of load() calls in one behaviour
MaxLoads == 2
\* number of caller-driven mutations (snapshot, apply, reposition, ...) and of step() calls
\* with a dt of the caller or that raise, in one behaviour
MaxCalls == 2
\* load() calls and those other calls together
MaxOps == 3

\* ------------------------------------------------------------------------
\* Fixed-point arithmetic
\* ------------------------------------------------------------------------
Abs(a) == IF a < 0 THEN -a ELSE a

Sign(a) == IF a < 0 THEN -1 ELSE IF a > 0 THEN 1 ELSE 0

Max2(a, b) == IF a >= b THEN a ELSE b

Min2(a, b) == IF a <= b THEN a ELSE b

\* a / b for b > 0, rounded to nearest, half away from zero
DivR(a, b) == IF a >= 0 THEN (2 * a + b) \div (2 * b) ELSE -((2 * (-a) + b) \div (2 * b))

\* a * b / 1000: the product of a quantity and a per-mille coefficient
MulMilli(a, b) == DivR(a * b, 1000)

\* e handed to F as a value: e is evaluated once, however often F uses it
With(e, F(_)) == CHOOSE r \in { F(v) : v \in {e} } : TRUE

RECURSIVE SqrtSearch(_, _, _)
SqrtSearch(n, lo, hi) ==
    IF lo >= hi THEN lo
    ELSE With((lo + hi + 1) \div 2, LAMBDA mid :
             IF mid * mid <= n THEN SqrtSearch(n, mid, hi) ELSE SqrtSearch(n, lo, mid - 1))

\* floor of the square root, n >= 0
ISqrt(n) == SqrtSearch(n, 0, 46340)

\* math.hypot
Hypot(x, y) == ISqrt(x * x + y * y)

\* float("nan"): the one non-finite float, outside the range of every other value
nan == 2000000000

\* math.isfinite
isfinite(v) == v # nan

\* a + b and a - b of floats: non-finite as soon as an operand is
AddF(a, b) == IF isfinite(a) /\ isfinite(b) THEN a + b ELSE nan

SubF(a, b) == IF isfinite(a) /\ isfinite(b) THEN a - b ELSE nan

\* motors._clamp
_clamp(value, lo, hi) == Max2(lo, Min2(hi, value))

\* the absent value None
None == "None"

\* ------------------------------------------------------------------------
\* Simulator tunables, Simulator.__init__
\* ------------------------------------------------------------------------
linear_damping == 995
angular_damping == 995
max_linear_speed == 15000
max_angular_speed == 40000
contact_correction_percent == 250
contact_slop == 2
max_penetration_correction == 50
max_step_translation == 500

\* ------------------------------------------------------------------------
\* Scenarios: what load_scenario() hands to Simulator.load
\* ------------------------------------------------------------------------
ScenarioIds == {1, 2}

\* scenario directories whose robot names a body "ghost" it does not have: 3 on an
\* actuator, 4 on a sensor, 5 on a joint
BrokenScenarioIds == {3, 4, 5}

\* config.MaterialConfig defaults
MaterialConfig == [friction |-> 800, restitution |-> 100]

\* config.BodyConfig; half is the half side of the square given by points
BodyConfig(name, pose, can_move, mass, half) ==
    [name |-> name, pose |-> pose, can_move |-> can_move, mass |-> mass, inertia |-> 1,
     half |-> half, material |-> MaterialConfig]

\* config.WorldConfig: scenario 1 has a wall east of the robot, scenario 2 a crate north of it
WorldConfig(s) ==
    IF s = 1 \/ s \in BrokenScenarioIds
    THEN [timestep |-> 100, gravity |-> <<0, -9810>>,
          terrain |-> << [name |-> "wall", body |-> BodyConfig("wall", <<260, 0, 0>>, TRUE, 10, 50)] >>]
    ELSE [timestep |-> 50, gravity |-> <<0, -9810>>,
          terrain |-> << [name |-> "crate", body |-> BodyConfig("crate", <<0, 300, 0>>, TRUE, 10, 40)] >>]

\* config.JointConfig
JointConfig(name, parent, child, lower, upper) ==
    [name |-> name, parent |-> parent, child |-> child,
     anchor_parent |-> <<0, 0>>, anchor_child |-> <<0, 0>>,
     lower_limit |-> lower, upper_limit |-> upper]

\* config.ActuatorConfig with empty params
ActuatorConfig(name, body, mount_pose) == [name |-> name, body |-> body, mount_pose |-> mount_pose]

\* config.SensorConfig
SensorConfig(name, type, body) == [name |-> name, type |-> type, body |-> body]

\* the two-wheeled chassis towing an arm, its right wheel, its sensor and the far end
\* of its hitch on the bodies named
TowingRobot(wheel_body, sensor_body, hitch_child) ==
    [spawn_pose |-> <<0, 0, 0>>,
     bodies |-> << BodyConfig("chassis", <<0, 0, 0>>, TRUE, 1, 50),
                   BodyConfig("arm", <<100, 0, 0>>, TRUE, 1, 30) >>,
     joints |-> << JointConfig("hitch", "chassis", hitch_child, 100, 100) >>,
     actuators |-> << ActuatorConfig("left", "chassis", <<0, 40, 0>>),
                      ActuatorConfig("right", wheel_body, <<0, -40, 0>>) >>,
     sensors |-> << SensorConfig("imu", "imu", sensor_body) >>]

\* config.RobotConfig: scenario 1 is a two-wheeled chassis towing an arm, scenario 2 a
\* heavier single-wheel chassis, the broken scenarios are scenario 1 with one name wrong
RobotConfig(s) ==
    IF s = 1 THEN TowingRobot("chassis", "chassis", "arm")
    ELSE IF s = 3 THEN TowingRobot("ghost", "chassis", "arm")
    ELSE IF s = 4 THEN TowingRobot("chassis", "ghost", "arm")
    ELSE IF s = 5 THEN TowingRobot("chassis", "chassis", "ghost")
    ELSE [spawn_pose |-> <<0, 100, 0>>,
          bodies |-> << BodyConfig("chassis", <<0, 0, 0>>, TRUE, 2, 50) >>,
          joints |-> << >>,
          actuators |-> << ActuatorConfig("left", "chassis", <<0, 40, 0>>) >>,
          sensors |-> << SensorConfig("odo", "encoder", "chassis") >>]

\* ------------------------------------------------------------------------
\* Registries: a Python dict in insertion order is a sequence of records
\* keyed by their name field
\* ------------------------------------------------------------------------
Names(seq) == {seq[i].name : i \in 1..Len(seq)}

IndexOf(seq, name) == CHOOSE i \in 1..Len(seq) : seq[i].name = name

\* dict[name] = rec
DictPut(seq, rec) ==
    IF rec.name \in Names(seq) THEN [seq EXCEPT ![IndexOf(seq, rec.name)] = rec]
    ELSE Append(seq, rec)

\* ------------------------------------------------------------------------
\* Pose2D (low_level_mechanics.world)
\* ------------------------------------------------------------------------
\* math.cos and math.sin in per mille, the angle taken to the nearest eighth of a turn
CosMilli(theta) == <<1000, 707, 0, -707, -1000, -707, 0, 707>>[(DivR(theta, 785) % 8) + 1]

SinMilli(theta) == <<0, 707, 1000, 707, 0, -707, -1000, -707>>[(DivR(theta, 785) % 8) + 1]

\* Pose2D.transform_point: a body-local point in world coordinates
transform_point(pose, pt) ==
    << pose[1] + DivR(CosMilli(pose[3]) * pt[1] - SinMilli(pose[3]) * pt[2], 1000),
       pose[2] + DivR(SinMilli(pose[3]) * pt[1] + CosMilli(pose[3]) * pt[2], 1000) >>

\* Pose2D.compose: a body-local pose in world coordinates
compose(pose, local) ==
    LET p == transform_point(pose, <<local[1], local[2]>>)
    IN  << p[1], p[2], pose[3] + local[3] >>

\* Pose2D.translated
translated(pose, dx, dy) == << pose[1] + dx, pose[2] + dy, pose[3] >>

\* Pose2D.as_dict
as_dict(pose) == [x |-> pose[1], y |-> pose[2], theta |-> pose[3]]

\* ------------------------------------------------------------------------
\* Bodies
\* ------------------------------------------------------------------------
\* Simulator._make_body: the configured pose offset by the spawn pose, at rest; a
\* call without spawn pose passes the zero pose
_make_body(body_cfg, spawn_pose) ==
    [name |-> body_cfg.name,
     pose |-> << body_cfg.pose[1] + spawn_pose[1],
                 body_cfg.pose[2] + spawn_pose[2],
                 body_cfg.pose[3] + spawn_pose[3] >>,
     half |-> body_cfg.half,
     material |-> body_cfg.material,
     can_move |-> body_cfg.can_move,
     mass |-> body_cfg.mass,
     moment_of_inertia |-> body_cfg.inertia,
     linear_velocity |-> <<0, 0>>,
     angular_velocity |-> 0,
     force |-> <<0, 0>>]

\* SimObject.clear_impulses: pending forces are dropped
clear_impulses(body) == [body EXCEPT !.force = <<0, 0>>]

\* SimObject.apply_force: the force is held until the next integrate
apply_force(body, f) == [body EXCEPT !.force = << @[1] + f[1], @[2] + f[2] >>]

\* SimObject.integrate: semi-implicit Euler, the pending force consumed
integrate(body, dt) ==
    LET vx == body.linear_velocity[1] + DivR(DivR(body.force[1], body.mass) * dt, 1000)
        vy == body.linear_velocity[2] + DivR(DivR(body.force[2], body.mass) * dt, 1000)
    IN  [body EXCEPT !.linear_velocity = <<vx, vy>>,
                     !.pose = << AddF(@[1], DivR(vx * dt, 1000)),
                                 AddF(@[2], DivR(vy * dt, 1000)),
                                 AddF(@[3], DivR(body.angular_velocity * dt, 1000)) >>,
                     !.force = <<0, 0>>]

\* geometry.collision_manifold for two squares, their rotation ignored: the overlap
\* along the axis of least penetration, the normal pointing from a to b; overlap is
\* FALSE where the code gets no manifold
collision_manifold(a, b) ==
    LET dx == b.pose[1] - a.pose[1]
        dy == b.pose[2] - a.pose[2]
        ox == a.half + b.half - Abs(dx)
        oy == a.half + b.half - Abs(dy)
    IN  IF ox <= 0 \/ oy <= 0 THEN [overlap |-> FALSE, normal |-> <<0, 0>>, penetration |-> 0]
        ELSE IF ox <= oy
             THEN [overlap |-> TRUE, normal |-> << (IF dx < 0 THEN -1000 ELSE 1000), 0 >>,
                   penetration |-> ox]
             ELSE [overlap |-> TRUE, normal |-> << 0, (IF dy < 0 THEN -1000 ELSE 1000) >>,
                   penetration |-> oy]

\* ------------------------------------------------------------------------
\* Safety and clamping helpers.  Each returns the body and the warning it
\* last flagged (None when it flagged none).
\* ------------------------------------------------------------------------
\* Simulator._sanitize_velocity: non-finite velocities are reset to zero, speeds above
\* the ceilings are scaled back to them
_sanitize_velocity(body) ==
    LET bad_v == ~(isfinite(body.linear_velocity[1]) /\ isfinite(body.linear_velocity[2]))
        bad_w == ~isfinite(body.angular_velocity)
        vx == IF bad_v THEN 0 ELSE body.linear_velocity[1]
        vy == IF bad_v THEN 0 ELSE body.linear_velocity[2]
        omega == IF bad_w THEN 0 ELSE body.angular_velocity
    IN  With(Hypot(vx, vy), LAMBDA speed :
        LET fast == max_linear_speed > 0 /\ speed > max_linear_speed
            spin == max_angular_speed > 0 /\ Abs(omega) > max_angular_speed
        IN  [body |-> [body EXCEPT
                         !.linear_velocity =
                             IF fast THEN << DivR(vx * max_linear_speed, speed),
                                             DivR(vy * max_linear_speed, speed) >>
                             ELSE << vx, vy >>,
                         !.angular_velocity = IF spin THEN Sign(omega) * max_angular_speed ELSE omega],
             warning |-> IF spin THEN "clamped angular speed"
                         ELSE IF fast THEN "clamped linear speed"
                         ELSE IF bad_w THEN "reset invalid angular velocity"
                         ELSE IF bad_v THEN "reset invalid linear velocity" ELSE None])

\* Simulator._sanitize_pose: a pose with a non-finite component is reset to the origin
_sanitize_pose(body) ==
    IF isfinite(body.pose[1]) /\ isfinite(body.pose[2]) /\ isfinite(body.pose[3])
    THEN [body |-> body, warning |-> None]
    ELSE [body |-> [body EXCEPT !.pose = <<0, 0, 0>>],
          warning |-> "reset pose due to invalid values"]

\* the later of two warnings (Simulator._flag_warning keeps the last one)
Flag(old, new) == IF new # None THEN new ELSE old

RECURSIVE LastWarning(_, _, _)
\* the warning left by a pass that visited results in order, from the k-th on
LastWarning(k, results, old) ==
    IF k > Len(results) THEN old
    ELSE LastWarning(k + 1, results, Flag(old, results[k].warning))

\* an integration that moves pinned bodies as well
IntegrateBody_pinned_too(body, dt, gravity) ==
    IF body.mass <= 0
    THEN [body |-> clear_impulses(body), warning |-> None]
    ELSE LET pushed == apply_force(body, << gravity[1] * body.mass, gravity[2] * body.mass >>)
             damped == [pushed EXCEPT
                          !.linear_velocity = << MulMilli(@[1], linear_damping),
                                                 MulMilli(@[2], linear_damping) >>,
                          !.angular_velocity = MulMilli(@, angular_damping)]
         IN  With(_sanitize_velocity(damped), LAMBDA sane :
             With(_sanitize_pose(integrate(sane.body, dt)), LAMBDA posed :
                 [body |-> posed.body, warning |-> Flag(sane.warning, posed.warning)]))

\* Simulator._integrate_bodies, one body: gravity, damping, speed clamp, Euler step
IntegrateBody(body, dt, gravity) ==
    IF ~body.can_move \/ body.mass <= 0
    THEN [body |-> clear_impulses(body), warning |-> None]
    ELSE LET pushed == apply_force(body, << gravity[1] * body.mass, gravity[2] * body.mass >>)
             damped == [pushed EXCEPT
                          !.linear_velocity = << MulMilli(@[1], linear_damping),
                                                 MulMilli(@[2], linear_damping) >>,
                          !.angular_velocity = MulMilli(@, angular_damping)]
         IN  With(_sanitize_velocity(damped), LAMBDA sane :
             With(_sanitize_pose(integrate(sane.body, dt)), LAMBDA posed :
                 [body |-> posed.body, warning |-> Flag(sane.warning, posed.warning)]))

\* Simulator._integrate_bodies
_integrate_bodies(bs, dt, gravity, warning) ==
    With([i \in 1..Len(bs) |-> IntegrateBody(bs[i], dt, gravity)], LAMBDA results :
        [bodies |-> [i \in 1..Len(bs) |-> results[i].body],
         warning |-> LastWarning(1, results, warning)])

\* a displacement check that rescales every displacement: one of length zero by 0/0
CheckBodyStep_dividing(body, prev_poses) ==
    IF ~body.can_move \/ body.name \notin Names(prev_poses)
    THEN [body |-> body, warning |-> None]
    ELSE LET prev == prev_poses[IndexOf(prev_poses, body.name)].pose
         IN  IF body.pose[1] = prev[1] /\ body.pose[2] = prev[2]
             THEN [body |-> [body EXCEPT !.pose = << nan, nan, @[3] >>], warning |-> None]
             ELSE [body |-> body, warning |-> None]

\* Simulator._check_step_sanity, one body: a non-finite translation puts the body back
\* on its previous pose, a translation beyond the limit is scaled back to it, the
\* heading kept
CheckBodyStep(body, prev_poses) ==
    IF ~body.can_move \/ body.name \notin Names(prev_poses)
    THEN [body |-> body, warning |-> None]
    ELSE LET prev == prev_poses[IndexOf(prev_poses, body.name)].pose
             dx == SubF(body.pose[1], prev[1])
             dy == SubF(body.pose[2], prev[2])
         IN  IF ~(isfinite(dx) /\ isfinite(dy))
             THEN [body |-> [body EXCEPT !.pose = prev],
                   warning |-> "invalid step distance; resetting pose"]
             ELSE
             With(Hypot(dx, dy), LAMBDA dist :
                 IF dist > max_step_translation
                 THEN [body |-> [body EXCEPT !.pose =
                                    << prev[1] + DivR(dx * max_step_translation, dist),
                                       prev[2] + DivR(dy * max_step_translation, dist),
                                       @[3] >>],
                       warning |-> "large step clamped"]
                 ELSE [body |-> body, warning |-> None])

\* a displacement check that is switched off
_check_step_sanity_disabled(bs, prev_poses, warning) == [bodies |-> bs, warning |-> warning]

\* Simulator._check_step_sanity
_check_step_sanity(bs, prev_poses, warning) ==
    IF max_step_translation <= 0 THEN [bodies |-> bs, warning |-> warning]
    ELSE With([i \in 1..Len(bs) |-> CheckBodyStep(bs[i], prev_poses)], LAMBDA results :
             [bodies |-> [i \in 1..Len(bs) |-> results[i].body],
              warning |-> LastWarning(1, results, warning)])

\* ------------------------------------------------------------------------
\* Joint solver
\* ------------------------------------------------------------------------
\* simulator.JointRuntime as load() builds it; lambda_accum is in thousandths
JointRuntime(cfg) == [cfg |-> cfg, compliance |-> 0, lambda_accum |-> 0]

\* 1.0 / max(mass, 1e-6) in per mille for a whole number of kilograms, 0 when the
\* body cannot move
InvMass(body) ==
    IF ~body.can_move THEN 0
    ELSE IF body.mass >= 1 THEN DivR(1000, body.mass) ELSE 1000000000

\* n * correction * inv_mass: the distance a positional correction moves a body along
\* one axis, for n and inv_mass in per mille; the quotient is taken first where the
\* product would leave the integer range
Moved(n, correction, inv_mass) ==
    IF inv_mass < 1000000 THEN DivR(n * correction * inv_mass, 1000000)
    ELSE DivR(n * correction, 1000) * (inv_mass \div 1000)

\* Simulator._solve_joints, one joint.  With compliance 0, alpha = 1e9 and
\* dlambda = -error / (w * 1e-9 + dt^2) in units of 1e-4 s^2; the term w * 1e-9 is below
\* the resolution unless a body's mass is below 1e-3, and dt is a whole number of
\* centiseconds.
SolveJoint(jr, bs, dt) ==
    IF jr.cfg.parent \notin Names(bs) \/ jr.cfg.child \notin Names(bs)
    THEN [joint |-> jr, bodies |-> bs]
    ELSE
    LET ip == IndexOf(bs, jr.cfg.parent)
        ic == IndexOf(bs, jr.cfg.child)
        parent == bs[ip]
        child == bs[ic]
        pa == transform_point(parent.pose, jr.cfg.anchor_parent)
        pb == transform_point(child.pose, jr.cfg.anchor_child)
        dx == pb[1] - pa[1]
        dy == pb[2] - pa[2]
    IN  With(Hypot(dx, dy), LAMBDA dist :
        LET target == IF jr.cfg.lower_limit = jr.cfg.upper_limit THEN jr.cfg.upper_limit ELSE 0
            error == dist - target
            n == IF dist = 0 THEN <<0, 0>> ELSE << DivR(dx * 1000, dist), DivR(dy * 1000, dist) >>
            inv_mass_a == InvMass(parent)
            inv_mass_b == InvMass(child)
            w == inv_mass_a + inv_mass_b
            dlambda == -DivR(error * 10000, (dt \div 10) * (dt \div 10) + w \div 100000000)
            correction == Max2(-max_penetration_correction, Min2(max_penetration_correction, dlambda))
            moved_parent ==
                IF parent.can_move
                THEN [parent EXCEPT !.pose = translated(@, Moved(-n[1], correction, inv_mass_a),
                                                           Moved(-n[2], correction, inv_mass_a))]
                ELSE parent
            moved_child ==
                IF child.can_move
                THEN [child EXCEPT !.pose = translated(@, Moved(n[1], correction, inv_mass_b),
                                                          Moved(n[2], correction, inv_mass_b))]
                ELSE child
        IN  IF (~parent.can_move /\ ~child.can_move) \/ error = 0 \/ w = 0
            THEN [joint |-> jr, bodies |-> bs]
            ELSE [joint |-> [jr EXCEPT !.lambda_accum = @ + dlambda],
                  bodies |-> [[bs EXCEPT ![ip] = moved_parent] EXCEPT ![ic] = moved_child]])

RECURSIVE SolveJointsFrom(_, _, _, _)
SolveJointsFrom(k, js, bs, dt) ==
    IF k > Len(js) THEN [joints |-> js, bodies |-> bs]
    ELSE With(SolveJoint(js[k], bs, dt), LAMBDA r :
             With([joints |-> [js EXCEPT ![k] = r.joint], bodies |-> r.bodies], LAMBDA next :
                 SolveJointsFrom(k + 1, next.joints, next.bodies, dt)))

\* Simulator._solve_joints: the joints in list order, each on the poses the previous left
_solve_joints(js, bs, dt) == SolveJointsFrom(1, js, bs, dt)

\* ------------------------------------------------------------------------
\* Contact resolver
\* ------------------------------------------------------------------------
\* v - inv_mass * impulse along direction d (per mille); sign is -1 for a, +1 for b
Pushed(v, sign, inv_mass, j, d) ==
    << v[1] + sign * DivR(DivR(inv_mass * j, 1000) * d[1], 1000),
       v[2] + sign * DivR(DivR(inv_mass * j, 1000) * d[2], 1000) >>

\* Simulator._solve_contacts, the body of the loop for the pair (i, j)
SolveContact(i, j, bs, warning) ==
    LET a == bs[i]
        b == bs[j]
    IN  With(collision_manifold(a, b), LAMBDA manifold :
        LET normal == manifold.normal
            inv_mass_a == InvMass(a)
            inv_mass_b == InvMass(b)
            inv_mass_sum == inv_mass_a + inv_mass_b
            correction_mag ==
                Min2(DivR(Max2(manifold.penetration - contact_slop, 0) * contact_correction_percent,
                          inv_mass_sum),
                     max_penetration_correction)
            a1 == IF a.can_move
                  THEN [a EXCEPT !.pose = translated(@, -DivR(normal[1] * correction_mag * inv_mass_a, 1000000),
                                                        -DivR(normal[2] * correction_mag * inv_mass_a, 1000000))]
                  ELSE a
            b1 == IF b.can_move
                  THEN [b EXCEPT !.pose = translated(@, DivR(normal[1] * correction_mag * inv_mass_b, 1000000),
                                                        DivR(normal[2] * correction_mag * inv_mass_b, 1000000))]
                  ELSE b
            rvx == a.linear_velocity[1] - b.linear_velocity[1]
            rvy == a.linear_velocity[2] - b.linear_velocity[2]
            vel_along_normal == DivR(rvx * normal[1] + rvy * normal[2], 1000)
            restitution == Max2(0, Min2(1000, Max2(a.material.restitution, b.material.restitution)))
            jn == DivR(-(1000 + restitution) * vel_along_normal, inv_mass_sum)
            tangent == << -normal[2], normal[1] >>
            mu == DivR(a.material.friction + b.material.friction, 2)
            jt_limit == MulMilli(mu, Abs(jn))
        IN  IF ~(a.can_move \/ b.can_move) \/ ~manifold.overlap \/ inv_mass_sum = 0
            THEN [bodies |-> bs, warning |-> warning]
            ELSE IF vel_along_normal > 0
            THEN [bodies |-> [[bs EXCEPT ![i] = a1] EXCEPT ![j] = b1], warning |-> warning]
            ELSE
            \* the normal impulse, then the friction impulse, then the speed clamp
            With([a |-> IF a.can_move
                        THEN [a1 EXCEPT !.linear_velocity = Pushed(@, -1, inv_mass_a, jn, normal)]
                        ELSE a1,
                  b |-> IF b.can_move
                        THEN [b1 EXCEPT !.linear_velocity = Pushed(@, 1, inv_mass_b, jn, normal)]
                        ELSE b1], LAMBDA n2 :
            With(DivR((n2.a.linear_velocity[1] - n2.b.linear_velocity[1]) * tangent[1]
                      + (n2.a.linear_velocity[2] - n2.b.linear_velocity[2]) * tangent[2], 1000),
                 LAMBDA vt :
            With(Max2(-jt_limit, Min2(jt_limit, DivR(-vt * 1000, inv_mass_sum))), LAMBDA jt :
            With([a |-> IF a.can_move
                        THEN _sanitize_velocity(
                                 [n2.a EXCEPT !.linear_velocity = Pushed(@, -1, inv_mass_a, jt, tangent)])
                        ELSE [body |-> n2.a, warning |-> None],
                  b |-> IF b.can_move
                        THEN _sanitize_velocity(
                                 [n2.b EXCEPT !.linear_velocity = Pushed(@, 1, inv_mass_b, jt, tangent)])
                        ELSE [body |-> n2.b, warning |-> None]], LAMBDA sane :
                [bodies |-> [[bs EXCEPT ![i] = sane.a.body] EXCEPT ![j] = sane.b.body],
                 warning |-> Flag(Flag(warning, sane.a.warning), sane.b.warning)])))))

RECURSIVE SolveContactsFrom(_, _, _, _)
\* the pairs (i, j), i < j, in the order of the nested loops
SolveContactsFrom(i, j, bs, warning) ==
    IF i > Len(bs) THEN [bodies |-> bs, warning |-> warning]
    ELSE IF j > Len(bs) THEN SolveContactsFrom(i + 1, i + 2, bs, warning)
    ELSE With(SolveContact(i, j, bs, warning), LAMBDA r :
             SolveContactsFrom(i, j + 1, r.bodies, r.warning))

\* a contact phase that resolves nothing
_solve_contacts_skipped(bs, warning) == [bodies |-> bs, warning |-> warning]

\* Simulator._solve_contacts
_solve_contacts(bs, warning) == SolveContactsFrom(1, 2, bs, warning)

\* ------------------------------------------------------------------------
\* Wheel motors (middle_level_library/motors.py)
\* ------------------------------------------------------------------------
\* motors._apply_impulse: an impulse (mN*s) at a world point changes the linear and
\* the angular velocity
_apply_impulse(body, impulse, contact_point) ==
    IF ~body.can_move \/ body.mass <= 0 THEN body
    ELSE LET rx == contact_point[1] - body.pose[1]
             ry == contact_point[2] - body.pose[2]
         IN  [body EXCEPT
                !.linear_velocity = << @[1] + DivR(impulse[1], body.mass),
                                       @[2] + DivR(impulse[2], body.mass) >>,
                !.angular_velocity =
                    IF body.moment_of_inertia <= 0 THEN @
                    ELSE @ + DivR(rx * impulse[2] - ry * impulse[1], 1000 * body.moment_of_inertia)]

\* motors._contact_velocity: the velocity of a world point of the body
_contact_velocity(body, contact_point) ==
    LET rx == contact_point[1] - body.pose[1]
        ry == contact_point[2] - body.pose[2]
    IN  << body.linear_velocity[1] - DivR(body.angular_velocity * ry, 1000),
           body.linear_velocity[2] + DivR(body.angular_velocity * rx, 1000) >>

\* motors._inv_mass_term: effective inverse mass along an axis at a point, per mille
_inv_mass_term(body, contact_point, axis) ==
    LET inv_mass == IF ~body.can_move \/ body.mass <= 0 THEN 0 ELSE DivR(1000, body.mass)
        rx == contact_point[1] - body.pose[1]
        ry == contact_point[2] - body.pose[2]
        r_cross_n == DivR(rx * axis[2] - ry * axis[1], 1000)
    IN  inv_mass + (IF body.moment_of_inertia <= 0 THEN 0
                    ELSE DivR(r_cross_n * r_cross_n, 1000 * body.moment_of_inertia))

\* motors._solve_wheel_traction: the drive impulse capped by mu_long * load * dt, then a
\* lateral impulse against side slip capped by mu_lat * load * dt
_solve_wheel_traction(body, contact_point, forward, drive_impulse, mu_long, mu_lat, normal_load, lateral_damping, dt) ==
    IF ~body.can_move THEN body
    ELSE
    LET n_load == Max2(normal_load, 0)
        damping == _clamp(lateral_damping, 0, 1000)
        lateral == << -forward[2], forward[1] >>
        max_long_impulse == DivR(MulMilli(Abs(mu_long), n_load) * dt, 1000)
        max_lat_impulse == DivR(MulMilli(Abs(mu_lat), n_load) * dt, 1000)
        j_drive == IF max_long_impulse > 0
                   THEN _clamp(drive_impulse, -max_long_impulse, max_long_impulse) ELSE 0
    IN  With(IF j_drive # 0
             THEN _apply_impulse(body, << MulMilli(forward[1], j_drive),
                                          MulMilli(forward[2], j_drive) >>, contact_point)
             ELSE body, LAMBDA driven :
        LET vc == _contact_velocity(driven, contact_point)
            v_lat == DivR(vc[1] * lateral[1] + vc[2] * lateral[2], 1000)
            inv_mass_term == _inv_mass_term(driven, contact_point, lateral)
            j_lat == _clamp(MulMilli(DivR(-v_lat * 1000, inv_mass_term), 1000 - damping),
                            -max_lat_impulse, max_lat_impulse)
        IN  IF max_lat_impulse > 0 /\ v_lat # 0 /\ inv_mass_term > 0
            THEN _apply_impulse(driven, << MulMilli(lateral[1], j_lat),
                                           MulMilli(lateral[2], j_lat) >>, contact_point)
            ELSE driven)

\* motors.WheelMotor as Simulator._attach_actuator builds it from empty params
WheelMotor(name, parent, mount_pose, mu_long, mu_lat, wheel_count) ==
    [name |-> name, parent |-> parent.name, mount_pose |-> mount_pose, max_command |-> 1000,
     max_force |-> 2000, mu_long |-> mu_long, mu_lat |-> mu_lat, g_equiv |-> 9810,
     normal_force |-> << >>, lateral_damping |-> 250, wheel_count |-> Max2(1, wheel_count),
     last_command |-> 0]

\* a wheel motor that takes its load from the weight even when given a normal_force
WheelMotor_apply_by_weight(motor, parent, value, dt) ==
    IF ~parent.can_move THEN parent
    ELSE With(compose(parent.pose, motor.mount_pose), LAMBDA pose :
             LET direction == << CosMilli(pose[3]), SinMilli(pose[3]) >>
                 normal_load == DivR(parent.mass * motor.g_equiv, Max2(motor.wheel_count, 1))
                 drive_impulse == DivR(MulMilli(motor.max_force, value) * dt, 1000)
             IN  _solve_wheel_traction(parent, << pose[1], pose[2] >>, direction, drive_impulse,
                                       motor.mu_long, motor.mu_lat, normal_load,
                                       motor.lateral_damping, dt))

\* motors.WheelMotor._apply on the parent body; normal_force is << >> for None, and
\* then the load is the motor's share of the body's weight
WheelMotor_apply(motor, parent, value, dt) ==
    IF ~parent.can_move THEN parent
    ELSE With(compose(parent.pose, motor.mount_pose), LAMBDA pose :
             LET direction == << CosMilli(pose[3]), SinMilli(pose[3]) >>
                 normal_load == IF motor.normal_force = << >>
                                THEN DivR(parent.mass * motor.g_equiv, Max2(motor.wheel_count, 1))
                                ELSE motor.normal_force[1]
                 drive_impulse == DivR(MulMilli(motor.max_force, value) * dt, 1000)
             IN  _solve_wheel_traction(parent, << pose[1], pose[2] >>, direction, drive_impulse,
                                       motor.mu_long, motor.mu_lat, normal_load,
                                       motor.lateral_damping, dt))

\* base.Motor.command: the value is clamped to the motor's max command, kept as
\* last_command and applied
command(motor, value, bs, dt) ==
    With(_clamp(value, -motor.max_command, motor.max_command), LAMBDA clamped :
    With(IndexOf(bs, motor.parent), LAMBDA ip :
    With(bs[ip], LAMBDA parent :
        [motor |-> [motor EXCEPT !.last_command = clamped],
         bodies |-> [bs EXCEPT ![ip] = WheelMotor_apply(motor, parent, clamped, dt)]])))

\* ------------------------------------------------------------------------
\* Sensors and controller: the collaborators step() calls
\* ------------------------------------------------------------------------
\* base.Sensor.read of an attached sensor: a reading of its parent body's state
SensorRead(sensor, bs) ==
    LET parent == bs[IndexOf(bs, sensor.parent)]
    IN  [pose |-> parent.pose, lin_vel |-> parent.linear_velocity,
         ang_vel |-> parent.angular_velocity]

\* Simulator._update_sensors when no read raises: name -> reading.value
_update_sensors(ss, bs) == [i \in 1..Len(ss) |-> [name |-> ss[i].name, value |-> SensorRead(ss[i], bs)]]

\* what a controller's step hook does on one tick: coast issues no command, drive
\* commands every motor full ahead, turn commands the motor "left" beyond its range,
\* fail commands like drive and then raises
CtrlBehaviours == {"coast", "drive", "turn", "fail"}

\* whether a behaviour commands a motor
Commands(beh, motor) == beh \in {"drive", "fail"} \/ (beh = "turn" /\ motor.name = "left")

\* the value it commands
CommandFor(beh, motor) == IF beh = "turn" THEN 1500 ELSE 1000

RECURSIVE CommandMotorsFrom(_, _, _, _, _)
\* the hook commands the motors in registry order
CommandMotorsFrom(k, beh, ms, bs, dt) ==
    IF k > Len(ms) THEN [motors |-> ms, bodies |-> bs]
    ELSE IF ~Commands(beh, ms[k]) THEN CommandMotorsFrom(k + 1, beh, ms, bs, dt)
    ELSE With(command(ms[k], CommandFor(beh, ms[k]), bs, dt), LAMBDA r :
         With([ms EXCEPT ![k] = r.motor], LAMBDA commanded :
             CommandMotorsFrom(k + 1, beh, commanded, r.bodies, dt)))

\* the controller's step(sensor_readings, dt) hook behaving as beh
tick_fn(beh, ms, bs, dt) ==
    With(CommandMotorsFrom(1, beh, ms, bs, dt), LAMBDA r :
        [motors |-> r.motors, bodies |-> r.bodies, raises |-> beh = "fail"])

\* ------------------------------------------------------------------------
\* State
\* ------------------------------------------------------------------------
VARIABLES
    scenario,               \* the loaded scenario (world_cfg, robot_cfg), 0 before load()
    spawn_pose,             \* robot_cfg.spawn_pose
    dt,                     \* Simulator.dt
    gravity,                \* Simulator.gravity
    time,                   \* Simulator.time
    step_index,             \* Simulator.step_index
    bodies,                 \* Simulator.bodies, in insertion order
    joints,                 \* Simulator.joints
    sensors,                \* Simulator.sensors
    motors,                 \* Simulator.motors
    controller_module,      \* Simulator.controller_module: the imported module, None if none
    controller_instance,    \* whether Simulator.controller_instance is set
    last_controller_error,  \* Simulator.last_controller_error
    last_sensor_readings,   \* Simulator.last_sensor_readings
    last_motor_commands,    \* Simulator.last_motor_commands
    last_physics_warning,   \* Simulator.last_physics_warning
    trace_enabled,          \* Simulator.trace_enabled
    trace_log,              \* Simulator.trace_log
    trace_callback,         \* Simulator.trace_callback: None, "returns" or "raises"
    raised,                 \* the exception the last call left to its caller, None if none
    controller_file,        \* per scenario directory: the controller module it holds
    snap                    \* the snapshot the caller keeps: << >> or one SnapshotState

\* what only load() sets
loaded_vars == << scenario, dt, gravity, sensors >>

clock_vars == << time, step_index >>

ctrl_vars == << controller_module, controller_instance >>

trace_vars == << trace_enabled, trace_log, trace_callback >>

\* ------------------------------------------------------------------------
\* Loading
\* ------------------------------------------------------------------------
\* the terrain objects of load(): built without spawn pose and pinned
TerrainBodies(world_cfg) ==
    [i \in 1..Len(world_cfg.terrain) |->
        [_make_body(world_cfg.terrain[i].body, <<0, 0, 0>>) EXCEPT !.can_move = FALSE]]

\* the robot bodies of load(): built at the spawn pose
RobotBodies(robot_cfg) ==
    [i \in 1..Len(robot_cfg.bodies) |-> _make_body(robot_cfg.bodies[i], robot_cfg.spawn_pose)]

\* Simulator._attach_actuator: the motor counts itself and the wheel motors already on
\* its parent as wheel_count; a missing parent raises
_attach_actuator(cfg, bs, ms) ==
    IF cfg.body \notin Names(bs) THEN [raises |-> TRUE, motors |-> ms]
    ELSE LET parent == bs[IndexOf(bs, cfg.body)]
             wheel_count == 1 + Cardinality({k \in 1..Len(ms) : ms[k].parent = parent.name})
         IN  [raises |-> FALSE,
              motors |-> DictPut(ms, WheelMotor(cfg.name, parent, cfg.mount_pose,
                                                parent.material.friction,
                                                parent.material.friction, wheel_count))]

RECURSIVE AttachActuatorsFrom(_, _, _, _)
AttachActuatorsFrom(k, cfgs, bs, ms) ==
    IF k > Len(cfgs) THEN [raises |-> FALSE, motors |-> ms]
    ELSE With(_attach_actuator(cfgs[k], bs, ms), LAMBDA r :
             IF r.raises THEN r ELSE AttachActuatorsFrom(k + 1, cfgs, bs, r.motors))

\* Simulator._attach_sensor: a missing parent raises
_attach_sensor(cfg, bs, ss) ==
    IF cfg.body \notin Names(bs) THEN [raises |-> TRUE, sensors |-> ss]
    ELSE [raises |-> FALSE,
          sensors |-> DictPut(ss, [name |-> cfg.name, type |-> cfg.type, parent |-> cfg.body])]

RECURSIVE AttachSensorsFrom(_, _, _, _)
AttachSensorsFrom(k, cfgs, bs, ss) ==
    IF k > Len(cfgs) THEN [raises |-> FALSE, sensors |-> ss]
    ELSE With(_attach_sensor(cfgs[k], bs, ss), LAMBDA r :
             IF r.raises THEN r ELSE AttachSensorsFrom(k + 1, cfgs, bs, r.sensors))

\* a _load_controller that leaves a stored error stored when the module imports
_load_controller_keeps_error(file, keep_previous, prev_module, prev_instance) ==
    IF file # "missing" THEN [module |-> file, instance |-> TRUE, error |-> last_controller_error]
    ELSE [module |-> IF keep_previous THEN prev_module ELSE None,
          instance |-> IF keep_previous THEN prev_instance ELSE FALSE,
          error |-> "Controller file not found"]

\* Simulator._load_controller: a module that imports gives a fresh instance and clears
\* the error; a missing or broken one stores an error and, unless keep_previous, drops
\* the instance
_load_controller(file, keep_previous, prev_module, prev_instance) ==
    IF file # "missing" THEN [module |-> file, instance |-> TRUE, error |-> None]
    ELSE [module |-> IF keep_previous THEN prev_module ELSE None,
          instance |-> IF keep_previous THEN prev_instance ELSE FALSE,
          error |-> "Controller file not found"]

\* the controller modules a scenario directory may hold; "missing" is no file at all
ControllerFiles == {"missing", "swerve", "crash"}

\* what the Controller of a module does on the tick at step index k: swerve turns and
\* drives in turn, crash drives but fails on the second tick
Program(file, k) ==
    IF file = "swerve" THEN (IF k % 2 = 0 THEN "turn" ELSE "drive")
    ELSE IF file = "crash" THEN (IF k = 1 THEN "fail" ELSE "drive")
    ELSE "coast"

\* Simulator.load, the scenario read from directory s: every joint is taken as
\* configured; the first actuator or sensor whose parent is missing raises ValueError
\* out of load(), which leaves what was attached before it and the old controller
load(s, top_down) ==
    LET world_cfg == WorldConfig(s)
        robot_cfg == RobotConfig(s)
        bs == TerrainBodies(world_cfg) \o RobotBodies(robot_cfg)
        attached == AttachActuatorsFrom(1, robot_cfg.actuators, bs, << >>)
        sensed == IF attached.raises THEN [raises |-> TRUE, sensors |-> << >>]
                  ELSE AttachSensorsFrom(1, robot_cfg.sensors, bs, << >>)
        ctrl == IF sensed.raises
                THEN [module |-> controller_module, instance |-> controller_instance,
                      error |-> None]
                ELSE _load_controller(controller_file[s], FALSE, controller_module,
                                      controller_instance)
    IN  /\ scenario' = s
        /\ spawn_pose' = robot_cfg.spawn_pose
        /\ dt' = world_cfg.timestep
        /\ gravity' = IF top_down THEN <<0, 0>> ELSE world_cfg.gravity
        /\ time' = 0
        /\ step_index' = 0
        /\ last_physics_warning' = None
        /\ bodies' = bs
        /\ joints' = [i \in 1..Len(robot_cfg.joints) |-> JointRuntime(robot_cfg.joints[i])]
        /\ motors' = attached.motors
        /\ sensors' = sensed.sensors
        /\ last_sensor_readings' = << >>
        /\ last_motor_commands' = << >>
        /\ controller_module' = ctrl.module
        /\ controller_instance' = ctrl.instance
        /\ last_controller_error' = ctrl.error
        /\ raised' = IF sensed.raises THEN "ValueError" ELSE None
        /\ UNCHANGED << trace_vars, controller_file, snap >>

\* ------------------------------------------------------------------------
\* Stepping
\* ------------------------------------------------------------------------
\* a step() that ticks the controller before it reads the sensors
step_order_controller_first ==
    << "controller", "sensors", "integrate", "joints", "contacts", "sanity", "trace", "advance" >>

\* the calls of Simulator.step in program order, after prev_poses is taken
step_order == << "sensors", "controller", "integrate", "joints", "contacts", "sanity",
                 "trace", "advance" >>

\* the dt arguments a caller passes to step(): none, or half a scenario timestep
StepArgs == { [given |-> FALSE, dt |-> 0], [given |-> TRUE, dt |-> 50] }

\* what a running step() call works on: the fields it writes and its local
\* sensor_readings, with the calls it has finished (done), whether the controller hook
\* was invoked and the readings passed to it, and the exception that ended it if any
Running ==
    [bodies |-> bodies, joints |-> joints, motors |-> motors,
     last_controller_error |-> last_controller_error,
     sensor_readings |-> << >>,
     last_sensor_readings |-> last_sensor_readings,
     last_motor_commands |-> last_motor_commands,
     last_physics_warning |-> None,
     trace_log |-> trace_log, time |-> time, step_index |-> step_index,
     done |-> << >>, invoked |-> FALSE, passed |-> << >>, raised |-> None]

\* step(): sensor_readings = self._update_sensors(dt); self.last_sensor_readings = ...;
\* a read that raises is not caught
step_sensors(st, sensor_raises) ==
    IF sensor_raises THEN [st EXCEPT !.raised = "sensor.read"]
    ELSE With(_update_sensors(sensors, st.bodies), LAMBDA readings :
             [st EXCEPT !.sensor_readings = readings, !.last_sensor_readings = readings])

\* a _tick_controller that invokes the hook although an error is stored
_tick_controller_ignores_error(beh, st, step_dt) ==
    IF ~controller_instance THEN st
    ELSE With(tick_fn(beh, st.motors, st.bodies, step_dt), LAMBDA r :
             [st EXCEPT !.invoked = TRUE,
                        !.passed = st.sensor_readings,
                        !.motors = r.motors,
                        !.bodies = r.bodies,
                        !.last_controller_error = IF r.raises THEN "Traceback" ELSE @])

\* Simulator._tick_controller: no instance or a stored error skips the hook; a raising
\* hook leaves its error stored and what it did before raising done
_tick_controller(beh, st, step_dt) ==
    IF ~controller_instance \/ st.last_controller_error # None THEN st
    ELSE With(tick_fn(beh, st.motors, st.bodies, step_dt), LAMBDA r :
             [st EXCEPT !.invoked = TRUE,
                        !.passed = st.sensor_readings,
                        !.motors = r.motors,
                        !.bodies = r.bodies,
                        !.last_controller_error = IF r.raises THEN "Traceback" ELSE @])

\* a step() that integrates only while no controller error is stored
step_integrate_unless_paused(st, step_dt) ==
    IF st.last_controller_error # None THEN st
    ELSE With(_integrate_bodies(st.bodies, step_dt, gravity, st.last_physics_warning), LAMBDA r :
             [st EXCEPT !.bodies = r.bodies, !.last_physics_warning = r.warning])

\* step(): self._integrate_bodies(dt)
step_integrate(st, step_dt) ==
    With(_integrate_bodies(st.bodies, step_dt, gravity, st.last_physics_warning), LAMBDA r :
        [st EXCEPT !.bodies = r.bodies, !.last_physics_warning = r.warning])

\* step(): self._solve_joints(dt)
step_joints(st, step_dt) ==
    With(_solve_joints(st.joints, st.bodies, step_dt), LAMBDA r :
        [st EXCEPT !.bodies = r.bodies, !.joints = r.joints])

\* step(): self._solve_contacts(dt)
step_contacts(st) ==
    With(_solve_contacts(st.bodies, st.last_physics_warning), LAMBDA r :
        [st EXCEPT !.bodies = r.bodies, !.last_physics_warning = r.warning])

\* step(): self._check_step_sanity(prev_poses, dt); self.last_motor_commands = ...
step_sanity(st, prev_poses) ==
    With(_check_step_sanity(st.bodies, prev_poses, st.last_physics_warning), LAMBDA r :
        [st EXCEPT !.bodies = r.bodies,
                   !.last_physics_warning = r.warning,
                   !.last_motor_commands =
                       [i \in 1..Len(st.motors) |->
                           [name |-> st.motors[i].name, value |-> st.motors[i].last_command]]])

\* Simulator._record_trace: one record of the tick is appended, then handed to the
\* callback if there is one; a callback that raises is not caught
_record_trace(st, step_dt) ==
    [st EXCEPT !.trace_log =
                   Append(@, [step |-> st.step_index, time |-> st.time, dt |-> step_dt,
                              bodies |-> [i \in 1..Len(st.bodies) |->
                                             [name |-> st.bodies[i].name,
                                              pose |-> as_dict(st.bodies[i].pose)]]]),
               !.raised = IF trace_callback = "raises" THEN "trace_callback" ELSE @]

\* a step() that records the tick whether tracing is enabled or not
step_trace_always(st, step_dt) == _record_trace(st, step_dt)

\* step(): if self.trace_enabled: self._record_trace(dt)
step_trace(st, step_dt) == IF trace_enabled THEN _record_trace(st, step_dt) ELSE st

\* step(): self.time += dt; self.step_index += 1
step_advance(st, step_dt) == [st EXCEPT !.time = @ + step_dt, !.step_index = @ + 1]

\* one call of step()'s body; an exception leaves it unfinished
RunPhase(p, st, step_dt, prev_poses, sensor_raises) ==
    With(CASE p = "sensors" -> step_sensors(st, sensor_raises)
           [] p = "controller" ->
                  _tick_controller(Program(controller_module, st.step_index), st, step_dt)
           [] p = "integrate" -> step_integrate(st, step_dt)
           [] p = "joints" -> step_joints(st, step_dt)
           [] p = "contacts" -> step_contacts(st)
           [] p = "sanity" -> step_sanity(st, prev_poses)
           [] p = "trace" -> step_trace(st, step_dt)
           [] p = "advance" -> step_advance(st, step_dt), LAMBDA out :
        IF out.raised # None THEN out ELSE [out EXCEPT !.done = Append(@, p)])

RECURSIVE RunFrom(_, _, _, _, _)
\* step()'s body from its k-th call on, until it ends or an exception leaves it
RunFrom(k, st, step_dt, prev_poses, sensor_raises) ==
    IF k > Len(step_order) \/ st.raised # None THEN st
    ELSE With(RunPhase(step_order[k], st, step_dt, prev_poses, sensor_raises), LAMBDA out :
             RunFrom(k + 1, out, step_dt, prev_poses, sensor_raises))

\* Simulator.step as a function of the simulator it finds: dt defaults to self.dt, the
\* warning is cleared, the poses are remembered, then the body runs
RunStep(arg, sensor_raises) ==
    With(IF arg.given THEN arg.dt ELSE dt, LAMBDA step_dt :
    With([i \in 1..Len(bodies) |-> [name |-> bodies[i].name, pose |-> bodies[i].pose]],
         LAMBDA prev_poses :
    With(Running, LAMBDA st : RunFrom(1, st, step_dt, prev_poses, sensor_raises))))

\* Simulator.step; sensor_raises says whether a sensor's read raises in this call
step(arg, sensor_raises) ==
    /\ step_index < MaxSteps
    /\ trace_enabled => Len(trace_log) < MaxTrace
    /\ arg.given => scenario # 0
    /\ sensor_raises => sensors # << >>
    /\ \E st \in {RunStep(arg, sensor_raises)} :
           /\ bodies' = st.bodies
           /\ joints' = st.joints
           /\ motors' = st.motors
           /\ last_controller_error' = st.last_controller_error
           /\ last_sensor_readings' = st.last_sensor_readings
           /\ last_motor_commands' = st.last_motor_commands
           /\ last_physics_warning' = st.last_physics_warning
           /\ trace_log' = st.trace_log
           /\ time' = st.time
           /\ step_index' = st.step_index
           /\ raised' = st.raised
    /\ UNCHANGED << loaded_vars, spawn_pose, ctrl_vars, trace_enabled, trace_callback,
                    controller_file, snap >>

\* the arguments a caller passes to enable_trace_logging
TraceArgs ==
    { [enabled |-> TRUE, callback |-> None, clear_existing |-> TRUE],
      [enabled |-> TRUE, callback |-> "returns", clear_existing |-> FALSE],
      [enabled |-> FALSE, callback |-> None, clear_existing |-> FALSE] }

\* Simulator.enable_trace_logging
enable_trace_logging(enabled, callback, clear_existing) ==
    /\ trace_enabled' = enabled
    /\ trace_callback' = callback
    /\ trace_log' = IF clear_existing THEN << >> ELSE trace_log
    /\ raised' = None
    /\ UNCHANGED << loaded_vars, spawn_pose, clock_vars, bodies, joints, motors, ctrl_vars,
                    last_controller_error, last_sensor_readings, last_motor_commands,
                    last_physics_warning, controller_file, snap >>

\* ------------------------------------------------------------------------
\* Snapshot
\* ------------------------------------------------------------------------
\* Simulator.snapshot: time, step and per body its pose as a dict and its velocities;
\* the controllers here expose no get_state, so controller_state is None
SnapshotOf(t, k, bs) ==
    [time |-> t,
     step |-> k,
     bodies |-> [i \in 1..Len(bs) |->
                    [name |-> bs[i].name,
                     pose |-> as_dict(bs[i].pose),
                     lin_vel |-> bs[i].linear_velocity,
                     ang_vel |-> bs[i].angular_velocity]],
     controller_state |-> None]

\* a snapshot() that records no velocities
snapshot_without_velocities ==
    [SnapshotOf(time, step_index, bodies) EXCEPT
        !.bodies = [i \in 1..Len(bodies) |-> [@[i] EXCEPT !.lin_vel = <<0, 0>>, !.ang_vel = 0]]]

\* Simulator.snapshot of the simulator as it is
snapshot == SnapshotOf(time, step_index, bodies)

\* an apply_snapshot that restores poses but not velocities
RestoreBody_keeps_velocity(body, s) ==
    IF body.name \notin Names(s.bodies) THEN body
    ELSE LET e == s.bodies[IndexOf(s.bodies, body.name)]
         IN  [body EXCEPT !.pose = << e.pose.x, e.pose.y, e.pose.theta >>]

\* an apply_snapshot that resets a body the snapshot does not name
RestoreBody_resets_unnamed(body, s) ==
    IF body.name \notin Names(s.bodies)
    THEN [body EXCEPT !.pose = <<0, 0, 0>>, !.linear_velocity = <<0, 0>>, !.angular_velocity = 0]
    ELSE LET e == s.bodies[IndexOf(s.bodies, body.name)]
         IN  [body EXCEPT !.pose = << e.pose.x, e.pose.y, e.pose.theta >>,
                          !.linear_velocity = e.lin_vel,
                          !.angular_velocity = e.ang_vel]

\* Simulator.apply_snapshot, the loop body: a live body takes the pose and velocities
\* the snapshot holds under its name, if it holds any
RestoreBody(body, s) ==
    IF body.name \notin Names(s.bodies) THEN body
    ELSE LET e == s.bodies[IndexOf(s.bodies, body.name)]
         IN  [body EXCEPT !.pose = << e.pose.x, e.pose.y, e.pose.theta >>,
                          !.linear_velocity = e.lin_vel,
                          !.angular_velocity = e.ang_vel]

\* an apply_snapshot of a snapshot that is a view of the live bodies: nothing to restore
apply_snapshot_of_view(s) == [time |-> s.time, step_index |-> s.step, bodies |-> bodies]

\* Simulator.apply_snapshot: what it makes of time, step_index and the bodies
apply_snapshot(s) ==
    [time |-> s.time,
     step_index |-> s.step,
     bodies |-> [i \in 1..Len(bodies) |-> RestoreBody(bodies[i], s)]]

\* the caller takes a snapshot and keeps it
TakeSnapshot ==
    /\ snap' = << snapshot >>
    /\ raised' = None
    /\ UNCHANGED << loaded_vars, spawn_pose, clock_vars, bodies, joints, motors, ctrl_vars,
                    last_controller_error, last_sensor_readings, last_motor_commands,
                    last_physics_warning, trace_vars, controller_file >>

\* a snapshot file saved from a run of scenario 1: the wall, and chassis and arm under way
SavedSnapshot ==
    [time |-> 250,
     step |-> 2,
     bodies |-> << [name |-> "chassis", pose |-> [x |-> 20, y |-> -30, theta |-> 785],
                    lin_vel |-> <<120, 0>>, ang_vel |-> 40],
                   [name |-> "arm", pose |-> [x |-> 120, y |-> -30, theta |-> 0],
                    lin_vel |-> <<120, 0>>, ang_vel |-> 0],
                   [name |-> "wall", pose |-> [x |-> 260, y |-> 0, theta |-> 0],
                    lin_vel |-> <<0, 0>>, ang_vel |-> 0] >>,
     controller_state |-> None]

\* persistence.load_snapshot: the caller reads the snapshot file and keeps what it holds
load_snapshot ==
    /\ snap' = << SavedSnapshot >>
    /\ raised' = None
    /\ UNCHANGED << loaded_vars, spawn_pose, clock_vars, bodies, joints, motors, ctrl_vars,
                    last_controller_error, last_sensor_readings, last_motor_commands,
                    last_physics_warning, trace_vars, controller_file >>

\* the caller applies the snapshot it keeps
ApplySnapshot ==
    /\ snap # << >>
    /\ LET r == apply_snapshot(snap[1])
       IN  /\ time' = r.time
           /\ step_index' = r.step_index
           /\ bodies' = r.bodies
    /\ raised' = None
    /\ UNCHANGED << loaded_vars, spawn_pose, joints, motors, ctrl_vars, last_controller_error,
                    last_sensor_readings, last_motor_commands, last_physics_warning,
                    trace_vars, controller_file, snap >>

\* ------------------------------------------------------------------------
\* Controller hot reload
\* ------------------------------------------------------------------------
\* Simulator.reload_controller, the module on disk having been edited to file
reload_controller(file) ==
    /\ IF scenario = 0
       THEN UNCHANGED << ctrl_vars, last_controller_error, controller_file >>
       ELSE LET ctrl == _load_controller(file, TRUE, controller_module, controller_instance)
            IN  /\ controller_file' = [controller_file EXCEPT ![scenario] = file]
                /\ controller_module' = ctrl.module
                /\ controller_instance' = ctrl.instance
                /\ last_controller_error' = ctrl.error
    /\ raised' = None
    /\ UNCHANGED << loaded_vars, spawn_pose, clock_vars, bodies, joints, motors,
                    last_sensor_readings, last_motor_commands, last_physics_warning,
                    trace_vars, snap >>

\* Simulator.clear_controller_error
clear_controller_error ==
    /\ last_controller_error' = None
    /\ raised' = None
    /\ UNCHANGED << loaded_vars, spawn_pose, clock_vars, bodies, joints, motors, ctrl_vars,
                    last_sensor_readings, last_motor_commands, last_physics_warning,
                    trace_vars, controller_file, snap >>

\* a RepositionBody that offsets the body from where it stands
RepositionBody_relative(body, robot_cfg, pose, zero_velocity) ==
    IF body.name \notin Names(robot_cfg.bodies) THEN body
    ELSE LET placed == [body EXCEPT !.pose = << body.pose[1] + pose[1],
                                                body.pose[2] + pose[2],
                                                body.pose[3] + pose[3] >>]
         IN  IF zero_velocity
             THEN clear_impulses([placed EXCEPT !.linear_velocity = <<0, 0>>,
                                                !.angular_velocity = 0])
             ELSE placed

\* ------------------------------------------------------------------------
\* Robot pose helpers
\* ------------------------------------------------------------------------
\* Simulator.reposition_robot, the loop body: a robot body goes to its configured pose
\* offset by the given pose
RepositionBody(body, robot_cfg, pose, zero_velocity) ==
    IF body.name \notin Names(robot_cfg.bodies) THEN body
    ELSE LET body_cfg == robot_cfg.bodies[IndexOf(robot_cfg.bodies, body.name)]
             placed == [body EXCEPT !.pose = << body_cfg.pose[1] + pose[1],
                                                body_cfg.pose[2] + pose[2],
                                                body_cfg.pose[3] + pose[3] >>]
         IN  IF zero_velocity
             THEN clear_impulses([placed EXCEPT !.linear_velocity = <<0, 0>>,
                                                !.angular_velocity = 0])
             ELSE placed

\* a reposition_robot that leaves the joints alone
reposition_robot_keeps_joints(pose, zero_velocity, set_as_spawn) ==
    IF scenario = 0
    THEN [bodies |-> bodies, spawn_pose |-> spawn_pose, joints |-> joints]
    ELSE [bodies |-> [i \in 1..Len(bodies) |->
                         RepositionBody(bodies[i], RobotConfig(scenario), pose, zero_velocity)],
          spawn_pose |-> IF set_as_spawn THEN pose ELSE spawn_pose,
          joints |-> joints]

\* Simulator.reposition_robot: what it makes of the bodies, the spawn pose and the joints
reposition_robot(pose, zero_velocity, set_as_spawn) ==
    IF scenario = 0
    THEN [bodies |-> bodies, spawn_pose |-> spawn_pose, joints |-> joints]
    ELSE [bodies |-> [i \in 1..Len(bodies) |->
                         RepositionBody(bodies[i], RobotConfig(scenario), pose, zero_velocity)],
          spawn_pose |-> IF set_as_spawn THEN pose ELSE spawn_pose,
          joints |-> [i \in 1..Len(joints) |-> [joints[i] EXCEPT !.lambda_accum = 0]]]

\* the arguments a caller passes to reposition_robot: into the wall or away and turned,
\* each flag either way
RepositionArgs ==
    { [pose |-> <<100, 0, 0>>, zero_velocity |-> TRUE, set_as_spawn |-> FALSE],
      [pose |-> <<100, 0, 0>>, zero_velocity |-> FALSE, set_as_spawn |-> TRUE],
      [pose |-> <<0, -200, 1571>>, zero_velocity |-> TRUE, set_as_spawn |-> TRUE],
      [pose |-> <<0, -200, 1571>>, zero_velocity |-> FALSE, set_as_spawn |-> FALSE] }

\* the caller teleports the robot
Reposition(pose, zero_velocity, set_as_spawn) ==
    /\ LET r == reposition_robot(pose, zero_velocity, set_as_spawn)
       IN  /\ bodies' = r.bodies
           /\ spawn_pose' = r.spawn_pose
           /\ joints' = r.joints
    /\ raised' = None
    /\ UNCHANGED << loaded_vars, clock_vars, motors, ctrl_vars, last_controller_error,
                    last_sensor_readings, last_motor_commands, last_physics_warning,
                    trace_vars, controller_file, snap >>

\* Simulator.reset_to_spawn
reset_to_spawn ==
    /\ LET r == reposition_robot(spawn_pose, TRUE, FALSE)
       IN  /\ bodies' = r.bodies
           /\ spawn_pose' = r.spawn_pose
           /\ joints' = r.joints
    /\ raised' = None
    /\ UNCHANGED << loaded_vars, clock_vars, motors, ctrl_vars, last_controller_error,
                    last_sensor_readings, last_motor_commands, last_physics_warning,
                    trace_vars, controller_file, snap >>

\* ------------------------------------------------------------------------
\* Construction
\* ------------------------------------------------------------------------
\* Simulator.__init__: the caller replaces the instance by a fresh one; the scenario
\* directories and the snapshot the caller keeps are not the instance's
construct ==
    /\ scenario' = 0
    /\ spawn_pose' = <<0, 0, 0>>
    /\ dt' = 8
    /\ gravity' = <<0, -9810>>
    /\ time' = 0
    /\ step_index' = 0
    /\ bodies' = << >>
    /\ joints' = << >>
    /\ sensors' = << >>
    /\ motors' = << >>
    /\ controller_module' = None
    /\ controller_instance' = FALSE
    /\ last_controller_error' = None
    /\ last_sensor_readings' = << >>
    /\ last_motor_commands' = << >>
    /\ last_physics_warning' = None
    /\ trace_enabled' = FALSE
    /\ trace_log' = << >>
    /\ trace_callback' = None
    /\ raised' = None
    /\ UNCHANGED << controller_file, snap >>

\* ------------------------------------------------------------------------
\* Applications beside the simulator: the designer's desk and the runner's
\* transport, which the calls on the simulator leave alone
\* ------------------------------------------------------------------------
VARIABLES
    design,     \* the robot configuration the designer holds, the file it saved and what
                \* it loaded back
    runner      \* the runner's play flag, play button, error log and simulator

apps_vars == << design, runner >>

\* no design on the desk
NoDesign ==
    [robot |-> [bodies |-> << >>, actuators |-> << >>, sensors |-> << >>],
     file |-> << >>, loaded |-> << >>, round |-> 0]

\* RunnerApp.__init__ up to _load_sim(): playing, the button offers Pause, no errors
RunnerApp == [playing |-> TRUE, btn_play |-> "Pause", error_log |-> << >>, sim |-> FALSE]

\* ------------------------------------------------------------------------
\* History of the run, kept beside the simulator to state properties of it
\* ------------------------------------------------------------------------
VARIABLES
    loads,      \* how many times load() was called
    calls,      \* how many calls other than load() and step() without dt were made
    last_call,  \* the latest call the caller made
    last_arg,   \* the arguments of the latest step() or reposition_robot() call
    before_last, \* the call made before the latest, and the controller error it found
    entry,      \* the simulator as the latest call found it
    done,       \* the calls of its body the latest step() call finished, in order
    invoked,    \* whether the latest step() call invoked the controller hook
    passed,     \* the sensor readings it passed to the hook
    captured,   \* the simulator as the snapshot the caller keeps found it
    era,        \* what the latest load() was given: scenario, top_down, controller file
    pure,       \* only step() calls without dt argument were made since that load()
    ref,        \* the body poses after each tick of the first load()'s pure run
    replay,     \* the ticks run since the kept snapshot was taken, and their rerun
    traced      \* the trace flag and log the latest call found, and the ticks run since
                \* tracing was enabled with an empty log

history_vars == << loads, calls, last_call, last_arg, before_last, entry, done, invoked, passed, captured, era,
                   pure, ref, replay, traced >>

\* the simulator as a call finds it
Here ==
    [scenario |-> scenario, dt |-> dt, bodies |-> bodies, joints |-> joints, time |-> time,
     step_index |-> step_index, last_controller_error |-> last_controller_error,
     controller_instance |-> controller_instance, spawn_pose |-> spawn_pose]

\* a simulator as construct() leaves it
Fresh ==
    [scenario |-> 0, dt |-> 8, bodies |-> << >>, joints |-> << >>, time |-> 0,
     step_index |-> 0, last_controller_error |-> None, controller_instance |-> FALSE,
     spawn_pose |-> <<0, 0, 0>>]

\* pose and velocities of every body
BodyStates(bs) ==
    [i \in 1..Len(bs) |-> [name |-> bs[i].name, pose |-> bs[i].pose,
                           linear_velocity |-> bs[i].linear_velocity,
                           angular_velocity |-> bs[i].angular_velocity]]

\* pose of every body
Poses(bs) == [i \in 1..Len(bs) |-> [name |-> bs[i].name, pose |-> bs[i].pose]]

NoTicks == [k \in 0..MaxSteps |-> << >>]

ReplayOff == [mode |-> "off", raised |-> FALSE, states |-> NoTicks]

NoArg == [given |-> FALSE, dt |-> 0]

\* a call other than step() begins with the arguments arg; what load() and construct()
\* find is not kept
BeginWith(call, arg) ==
    /\ last_call' = call
    /\ last_arg' = arg
    /\ before_last' = [call |-> last_call, error |-> entry.last_controller_error]
    /\ entry' = IF call \in {"load", "construct"} THEN Fresh ELSE Here
    /\ done' = << >>
    /\ invoked' = FALSE
    /\ passed' = << >>
    /\ traced' = [enabled |-> trace_enabled, log |-> trace_log,
                  ticks |-> IF ~trace_enabled' THEN << >>
                            ELSE IF call = "enable_trace_logging" /\ trace_log' = << >>
                            THEN <<0>>
                            ELSE traced.ticks]
    /\ UNCHANGED apps_vars

Begin(call) == BeginWith(call, NoArg)

ObserveLoad(s, top_down) ==
    /\ loads < MaxLoads /\ loads + calls < MaxOps
    /\ loads' = loads + 1
    /\ Begin("load")
    /\ era' = << s, top_down, controller_file'[s] >>
    /\ pure' = TRUE
    /\ ref' = IF loads = 0
              THEN [key |-> era', poses |-> [NoTicks EXCEPT ![0] = Poses(bodies')]]
              ELSE ref
    /\ replay' = ReplayOff
    /\ UNCHANGED << calls, captured >>

ObserveConstruct ==
    /\ loads < MaxLoads
    /\ scenario # 0
    /\ Begin("construct")
    /\ pure' = FALSE
    /\ replay' = ReplayOff
    /\ UNCHANGED << loads, calls, captured, era, ref >>

\* a step() call: a tick that ends without exception and was given no dt goes on the
\* record of the pure run and of the run since the snapshot
ObserveStep(arg, sensor_raises) ==
    /\ (arg.given \/ raised' # None) => (calls < MaxCalls /\ loads + calls < MaxOps)
    /\ calls' = IF arg.given \/ raised' # None THEN calls + 1 ELSE calls
    /\ last_call' = "step"
    /\ last_arg' = arg
    /\ before_last' = [call |-> last_call, error |-> entry.last_controller_error]
    /\ entry' = Here
    /\ \E st \in {RunStep(arg, sensor_raises)} :
           done' = st.done /\ invoked' = st.invoked /\ passed' = st.passed
    /\ traced' = [enabled |-> trace_enabled, log |-> trace_log,
                  ticks |-> IF traced.ticks # << >> /\ raised' = None
                            THEN << traced.ticks[1] + 1 >>
                            ELSE traced.ticks]
    /\ UNCHANGED apps_vars
    /\ pure' = (pure /\ ~arg.given /\ raised' = None)
    /\ ref' = IF pure' /\ loads = 1
              THEN [ref EXCEPT !.poses[step_index'] = Poses(bodies')]
              ELSE ref
    /\ replay' = IF arg.given \/ raised' # None THEN ReplayOff
                 ELSE IF replay.mode = "first"
                 THEN [replay EXCEPT
                          !.states[step_index'] = BodyStates(bodies'),
                          !.raised = @ \/ (last_controller_error = None
                                           /\ last_controller_error' # None)]
                 ELSE IF replay.mode = "second"
                 THEN [replay EXCEPT
                          !.raised = @ \/ (last_controller_error = None
                                           /\ last_controller_error' # None)]
                 ELSE replay
    /\ UNCHANGED << loads, captured, era >>

ObserveCallWith(call, arg) ==
    /\ calls < MaxCalls /\ loads + calls < MaxOps
    /\ calls' = calls + 1
    /\ BeginWith(call, arg)
    /\ pure' = FALSE
    /\ captured' = IF call = "snapshot" THEN << Here >>
                   ELSE IF call = "load_snapshot" THEN << >> ELSE captured
    /\ replay' = IF call = "snapshot"
                 THEN [mode |-> "first", raised |-> FALSE,
                       states |-> [NoTicks EXCEPT ![step_index] = BodyStates(bodies)]]
                 ELSE IF call = "apply_snapshot" /\ replay.mode # "off"
                 THEN [replay EXCEPT !.mode = "second"]
                 ELSE ReplayOff
    /\ UNCHANGED << loads, era, ref >>

ObserveCall(call) == ObserveCallWith(call, NoArg)

\* ------------------------------------------------------------------------
\* Specification
\* ------------------------------------------------------------------------
sim_vars == << loaded_vars, spawn_pose, clock_vars, bodies, joints, motors, ctrl_vars,
               last_controller_error, last_sensor_readings, last_motor_commands,
               last_physics_warning, trace_vars, raised, controller_file, snap, history_vars >>

vars == << sim_vars, apps_vars >>

\* a simulator just constructed, and a caller that has made no call yet
Constructed ==
    /\ scenario = 0
    /\ spawn_pose = <<0, 0, 0>>
    /\ dt = 8
    /\ gravity = <<0, -9810>>
    /\ time = 0
    /\ step_index = 0
    /\ bodies = << >>
    /\ joints = << >>
    /\ sensors = << >>
    /\ motors = << >>
    /\ controller_module = None
    /\ controller_instance = FALSE
    /\ last_controller_error = None
    /\ last_sensor_readings = << >>
    /\ last_motor_commands = << >>
    /\ last_physics_warning = None
    /\ trace_enabled = FALSE
    /\ trace_log = << >>
    /\ trace_callback = None
    /\ raised = None
    /\ controller_file = [s \in ScenarioIds |-> IF s = 1 THEN "crash" ELSE "swerve"]
    /\ snap = << >>
    /\ loads = 0
    /\ calls = 0
    /\ last_call = "construct"
    /\ last_arg = NoArg
    /\ before_last = [call |-> "construct", error |-> None]
    /\ entry = Fresh
    /\ done = << >>
    /\ invoked = FALSE
    /\ passed = << >>
    /\ captured = << >>
    /\ era = << >>
    /\ pure = FALSE
    /\ ref = [key |-> << >>, poses |-> NoTicks]
    /\ replay = ReplayOff
    /\ traced = [enabled |-> FALSE, log |-> << >>, ticks |-> << >>]

Init ==
    /\ Constructed
    /\ design = NoDesign
    /\ runner = RunnerApp

\* the calls a caller makes, every collaborator keeping its contract
Next ==
    \/ construct /\ ObserveConstruct
    \/ \E s \in ScenarioIds, top_down \in BOOLEAN : load(s, top_down) /\ ObserveLoad(s, top_down)
    \/ \E arg \in StepArgs : step(arg, FALSE) /\ ObserveStep(arg, FALSE)
    \/ \E a \in TraceArgs :
          enable_trace_logging(a.enabled, a.callback, a.clear_existing)
          /\ ObserveCall("enable_trace_logging")
    \/ TakeSnapshot /\ ObserveCall("snapshot")
    \/ load_snapshot /\ ObserveCall("load_snapshot")
    \/ ApplySnapshot /\ ObserveCall("apply_snapshot")
    \/ \E file \in ControllerFiles : reload_controller(file) /\ ObserveCall("reload_controller")
    \/ clear_controller_error /\ ObserveCall("clear_controller_error")
    \/ \E a \in RepositionArgs :
          Reposition(a.pose, a.zero_velocity, a.set_as_spawn)
          /\ ObserveCallWith("reposition_robot", a)
    \/ reset_to_spawn /\ ObserveCall("reset_to_spawn")

\* only the controller hook may raise
Spec == Init /\ [][Next]_vars

\* the calls in which a sensor's read raises or that pass a raising trace callback
Faults ==
    \/ step(NoArg, TRUE) /\ ObserveStep(NoArg, TRUE)
    \/ enable_trace_logging(TRUE, "raises", TRUE) /\ ObserveCall("enable_trace_logging")

NextFaults == Next \/ Faults

\* sensors and trace callback may raise as well
SpecFaults == Init /\ [][NextFaults]_vars

\* ------------------------------------------------------------------------
\* Physics bench: a simulator whose registries the caller filled by hand, the
\* way a unit test does, then stepped, or probed one solver or motor at a time
\* ------------------------------------------------------------------------
\* entities.SimObject in the given state
SimObject(name, pose, half, can_move, mass, friction, restitution, v, omega) ==
    [name |-> name, pose |-> pose, half |-> half,
     material |-> [friction |-> friction, restitution |-> restitution],
     can_move |-> can_move, mass |-> mass, moment_of_inertia |-> 1,
     linear_velocity |-> v, angular_velocity |-> omega, force |-> <<0, 0>>]

\* what the caller put in the registries, and the controller it installed
World(bs, js, ms, module) == [bodies |-> bs, joints |-> js, motors |-> ms, module |-> module]

\* two pinned bodies that overlap, braced by a joint that is off its length, the first
\* spinning and carrying a wheel the controller drives; a free puck may lie on them
PinnedWorlds ==
    LET base == SimObject("base", <<0, 0, 0>>, 50, FALSE, 1, 800, 100, <<120, -40>>, 30)
        post == SimObject("post", <<90, 0, 0>>, 50, FALSE, 1, 800, 100, <<0, 0>>, 0)
        puck == SimObject("puck", <<40, 90, 0>>, 50, TRUE, 1, 800, 100, <<0, -300>>, 0)
        brace == JointRuntime(JointConfig("brace", "base", "post", 0, 0))
        wheel == WheelMotor("left", base, <<0, 40, 0>>, 800, 800, 1)
    IN  { World(bs, << brace >>, << wheel >>, "swerve") :
            bs \in { << base, post >>, << base, post, puck >> } }

\* one free body, alone, given a velocity
FastWorlds ==
    { World(<< SimObject("puck", <<0, 0, 0>>, 50, TRUE, 1, 800, 100, v, 0) >>, << >>, << >>, None) :
        v \in { <<20000, 0>>, <<12000, 16000>>, <<0, -16000>>, <<3000, 0>> } }

\* one free body, alone, some of its pose not finite
BrokenPoses == { <<nan, 0, 0>>, <<0, nan, 0>>, <<0, 0, nan>>, <<nan, nan, nan>>, <<700, 0, nan>> }

NanWorlds ==
    { World(<< SimObject("puck", pose, 50, TRUE, 1, 800, 100, <<0, 0>>, 0) >>, << >>, << >>, None) :
        pose \in BrokenPoses }

\* two free squares of mass 1 overlapping by 10 along x, without friction, at rest,
\* closing in or drawing apart
SquareWorlds ==
    { World(<< SimObject("a", <<0, 0, 0>>, 50, TRUE, 1, 0, restitution, v[1], 0),
               SimObject("b", <<90, 0, 0>>, 50, TRUE, 1, 0, restitution, v[2], 0) >>,
            << >>, << >>, None) :
        restitution \in {0, 1000},
        v \in { << <<0, 0>>, <<0, 0>> >>, << <<1000, 0>>, <<-500, 0>> >>,
                << <<-1000, 0>>, <<500, 0>> >> } }

\* the friction coefficients and normal loads a caller gives a wheel: << >> is no
\* explicit load
Coefficients == {800, 0, -800}

NormalForces == { << >>, <<0>>, <<1000>> }

\* one free chassis drifting sideways, with one wheel
WheelWorlds ==
    LET chassis == SimObject("chassis", <<0, 0, 0>>, 50, TRUE, 1, 800, 100, <<0, 200>>, 0)
    IN  { World(<< chassis >>, << >>,
                << [WheelMotor("left", chassis, <<0, 40, 0>>, mu_long, mu_lat, 1)
                       EXCEPT !.normal_force = normal_force] >>, None) :
            mu_long \in Coefficients, mu_lat \in Coefficients, normal_force \in NormalForces }

BenchWorlds == PinnedWorlds \cup FastWorlds \cup NanWorlds \cup SquareWorlds \cup WheelWorlds

\* the command values a caller gives a motor
CommandValues == {1000, -1000, 400}

\* motor.command(value, dt) called on the k-th motor by the caller
CommandMotor(k, value) ==
    /\ k \in 1..Len(motors)
    /\ \E r \in {command(motors[k], value, bodies, dt)} :
           /\ motors' = [motors EXCEPT ![k] = r.motor]
           /\ bodies' = r.bodies
    /\ raised' = None
    /\ UNCHANGED << loaded_vars, spawn_pose, clock_vars, joints, ctrl_vars, last_controller_error,
                    last_sensor_readings, last_motor_commands, last_physics_warning, trace_vars,
                    controller_file, snap >>

\* Simulator._solve_contacts(dt) called by the caller: one contact resolution
SolveContacts ==
    /\ \E r \in {_solve_contacts(bodies, last_physics_warning)} :
           /\ bodies' = r.bodies
           /\ last_physics_warning' = r.warning
    /\ raised' = None
    /\ UNCHANGED << loaded_vars, spawn_pose, clock_vars, joints, motors, ctrl_vars,
                    last_controller_error, last_sensor_readings, last_motor_commands,
                    trace_vars, controller_file, snap >>

\* a simulator whose registries hold one of the worlds
InitBench(worlds) ==
    /\ scenario = 0
    /\ spawn_pose = <<0, 0, 0>>
    /\ dt = 100
    /\ gravity \in { <<0, 0>>, <<0, -9810>> }
    /\ time = 0
    /\ step_index = 0
    /\ \E w \in worlds :
          /\ bodies = w.bodies
          /\ joints = w.joints
          /\ motors = w.motors
          /\ controller_module = w.module
          /\ controller_instance = (w.module # None)
    /\ sensors = << >>
    /\ last_controller_error = None
    /\ last_sensor_readings = << >>
    /\ last_motor_commands = << >>
    /\ last_physics_warning = None
    /\ trace_enabled = FALSE
    /\ trace_log = << >>
    /\ trace_callback = None
    /\ raised = None
    /\ controller_file = [s \in ScenarioIds \cup BrokenScenarioIds |-> "missing"]
    /\ snap = << >>
    /\ loads = 0
    /\ calls = 0
    /\ last_call = "construct"
    /\ last_arg = NoArg
    /\ before_last = [call |-> "construct", error |-> None]
    /\ entry = Fresh
    /\ done = << >>
    /\ invoked = FALSE
    /\ passed = << >>
    /\ captured = << >>
    /\ era = << >>
    /\ pure = FALSE
    /\ ref = [key |-> << >>, poses |-> NoTicks]
    /\ replay = ReplayOff
    /\ traced = [enabled |-> FALSE, log |-> << >>, ticks |-> << >>]
    /\ design = NoDesign
    /\ runner = RunnerApp

InitPhysics == InitBench(BenchWorlds)

\* the calls made on the bench
NextPhysics ==
    \/ step(NoArg, FALSE) /\ ObserveStep(NoArg, FALSE)
    \/ SolveContacts /\ ObserveCall("_solve_contacts")
    \/ \E k \in 1..Len(motors), value \in CommandValues :
          CommandMotor(k, value) /\ ObserveCall("command")
    \/ \E s \in BrokenScenarioIds, top_down \in BOOLEAN :
          load(s, top_down) /\ ObserveLoad(s, top_down)

SpecPhysics == InitPhysics /\ [][NextPhysics]_vars

\* ------------------------------------------------------------------------
\* Joint bench: two bodies joined at their centres, and one pass of the joint
\* solver over them
\* ------------------------------------------------------------------------
\* where the child lies: on the parent, 1 cm, 10 cm and 15 cm away along an axis, 10 cm
\* and 25 cm away obliquely
Separations == { <<0, 0>>, <<10, 0>>, <<100, 0>>, <<0, 150>>, <<60, 80>>, <<-150, 200>> }

\* lower_limit and upper_limit of the joint
Limits == { <<0, 0>>, <<100, 100>>, <<0, 100>>, <<-50, 0>> }

\* the masses of a body: 1 kg, 2 kg, none
Masses == {1, 2, 0}

JointWorlds ==
    { World(<< SimObject("a", <<0, 0, 0>>, 50, ma, ka, 800, 100, <<0, 0>>, 0),
               SimObject("b", <<p[1], p[2], 0>>, 50, mb, kb, 800, 100, <<0, 0>>, 0) >>,
            << JointRuntime(JointConfig("hitch", "a", "b", l[1], l[2])) >>, << >>, None) :
        p \in Separations, l \in Limits, ma \in BOOLEAN, mb \in BOOLEAN,
        ka \in Masses, kb \in Masses }

\* Simulator._solve_joints(dt) called by the caller: one pass of the joint solver
SolveJoints ==
    /\ \E r \in {_solve_joints(joints, bodies, dt)} :
           /\ bodies' = r.bodies
           /\ joints' = r.joints
    /\ raised' = None
    /\ UNCHANGED << loaded_vars, spawn_pose, clock_vars, motors, ctrl_vars,
                    last_controller_error, last_sensor_readings, last_motor_commands,
                    last_physics_warning, trace_vars, controller_file, snap >>

InitJoints == InitBench(JointWorlds)

\* one pass over each world
NextJoints == calls = 0 /\ SolveJoints /\ ObserveCall("_solve_joints")

SpecJoints == InitJoints /\ [][NextJoints]_vars

\* ------------------------------------------------------------------------
\* Designer: saving a robot design and loading it back
\* ------------------------------------------------------------------------
\* how often the designer goes on with what it loaded
MaxRounds == 1

\* Python values that JSON does not tell apart
PyTuple(items) == [type |-> "tuple", items |-> items]

PyList(items) == [type |-> "list", items |-> items]

\* the names in use, in the order of Python's string comparison
NameOrder == << "arm", "base", "body", "left", "right" >>

Rank(name) == CHOOSE k \in 1..Len(NameOrder) : NameOrder[k] = name

\* sorted(seq, key=lambda x: x.name): stable, ascending
RECURSIVE sorted(_)
sorted(seq) ==
    IF seq = << >> THEN << >>
    ELSE LET rest == sorted(Tail(seq))
             head == Head(seq)
             ahead == {k \in 1..Len(rest) : Rank(rest[k].name) < Rank(head.name)}
             n == Cardinality(ahead)
         IN  SubSeq(rest, 1, n) \o << head >> \o SubSeq(rest, n + 1, Len(rest))

\* config.BodyConfig as the designer uses it: a named outline
Outline(name, points) == [name |-> name, points |-> points]

\* config.ActuatorConfig, config.SensorConfig: only the name matters here
Device(name) == [name |-> name]

\* persistence._normalize_robot: a robot without bodies gets a default body; actuators,
\* sensors and bodies are put in the order of their names
_normalize_robot(robot_cfg) ==
    LET bs == IF robot_cfg.bodies = << >>
              THEN << Outline("body", PyList(<< PyTuple(<<100, -60>>), PyTuple(<<100, 60>>),
                                                PyTuple(<<-80, 60>>), PyTuple(<<-80, -60>>) >>)) >>
              ELSE robot_cfg.bodies
    IN  [bodies |-> sorted(bs),
         actuators |-> sorted(robot_cfg.actuators),
         sensors |-> sorted(robot_cfg.sensors)]

\* config.save_json, _encode and json.dump: a dataclass becomes an object, a list and a
\* tuple alike become an array
_encode_points(points) == [j \in 1..Len(points.items) |-> points.items[j].items]

save_json(robot_cfg) ==
    [bodies |-> [i \in 1..Len(robot_cfg.bodies) |->
                    [name |-> robot_cfg.bodies[i].name,
                     points |-> _encode_points(robot_cfg.bodies[i].points)]],
     actuators |-> robot_cfg.actuators,
     sensors |-> robot_cfg.sensors]

\* config.load_json, json.load and _dataclass_from_dict: every array comes back as a
\* list; a field whose type is a list of dataclasses is rebuilt, any other keeps the
\* value json.load gave
load_json(doc) ==
    [bodies |-> [i \in 1..Len(doc.bodies) |->
                    Outline(doc.bodies[i].name,
                            PyList([j \in 1..Len(doc.bodies[i].points) |->
                                       PyList(doc.bodies[i].points[j])]))],
     actuators |-> doc.actuators,
     sensors |-> doc.sensors]

\* persistence.save_robot_design: the configuration is normalized in place, then written
save_robot_design ==
    /\ design.file = << >>
    /\ design' = [design EXCEPT !.robot = _normalize_robot(@),
                                !.file = << save_json(_normalize_robot(design.robot)) >>]
    /\ UNCHANGED << sim_vars, runner >>

\* persistence.load_robot_design
load_robot_design ==
    /\ design.file # << >>
    /\ design.loaded = << >>
    /\ design' = [design EXCEPT !.loaded = << _normalize_robot(load_json(design.file[1])) >>]
    /\ UNCHANGED << sim_vars, runner >>

\* the designer goes on with the configuration it loaded
Reopen ==
    /\ design.loaded # << >>
    /\ design.round < MaxRounds
    /\ design' = [robot |-> design.loaded[1], file |-> << >>, loaded |-> << >>,
                  round |-> design.round + 1]
    /\ UNCHANGED << sim_vars, runner >>

\* the outlines a designer draws: the square of the persistence test, as tuples and as
\* lists, and a body without points
Outlines ==
    { PyList(<< PyTuple(<<0, 0>>), PyTuple(<<200, 0>>), PyTuple(<<200, 100>>), PyTuple(<<0, 100>>) >>),
      PyList(<< PyList(<<0, 0>>), PyList(<<200, 0>>), PyList(<<200, 100>>), PyList(<<0, 100>>) >>),
      PyList(<< >>) }

DesignBodies == { Outline(name, points) : name \in {"base", "arm"}, points \in Outlines }

\* the robot configurations a designer saves
Designs ==
    { [bodies |-> bs, actuators |-> acts, sensors |-> << >>] :
        bs \in {<< >>} \cup { <<b>> : b \in DesignBodies }
                       \cup { <<a, b>> : a \in DesignBodies, b \in DesignBodies },
        acts \in { << >>, << Device("right"), Device("left") >> } }

InitDesign ==
    /\ Constructed
    /\ \E d \in Designs : design = [NoDesign EXCEPT !.robot = d]
    /\ runner = RunnerApp

NextDesign == save_robot_design \/ load_robot_design \/ Reopen

\* a designer saving, loading back and going on with what it loaded
SpecDesign == InitDesign /\ [][NextDesign]_vars

\* ------------------------------------------------------------------------
\* Runner: the transport of apps/runner.py, the simulator behind it seen only
\* through how its calls end
\* ------------------------------------------------------------------------
\* RunnerApp._record_error keeps the latest entries
MaxErrorLog == 6

\* how a sim.step() ends for the runner: it returns, it raises, it returns with a
\* controller error stored, or it raises with one stored
StepOutcomes == {"ok", "raises", "controller_error", "both"}

\* how _load_sim's try block ends: load_scenario raises, sim.load raises, the scenario
\* loads with the controller import failed, the scenario loads
LoadOutcomes == {"unreadable", "load_raises", "import_failed", "ok"}

\* RunnerApp._record_error with pause=True, the entry reduced to its title
_record_error(r, title) ==
    LET log == Append(r.error_log, title)
    IN  [r EXCEPT !.error_log = IF Len(log) > MaxErrorLog
                                THEN SubSeq(log, Len(log) - MaxErrorLog + 1, Len(log))
                                ELSE log,
                  !.playing = FALSE,
                  !.btn_play = "Play"]

\* RunnerApp._clear_errors
_clear_errors(r) == [r EXCEPT !.error_log = << >>]

\* try: self.sim.step(...) except: _record_error(...); then the stored controller error
\* is recorded and cleared
Advanced(r, outcome) ==
    LET r1 == IF outcome \in {"raises", "both"} THEN _record_error(r, "Simulation error") ELSE r
    IN  IF outcome \in {"controller_error", "both"} THEN _record_error(r1, "Controller error")
        ELSE r1

\* RunnerApp._load_sim for a runner that has a scenario
LoadedSim(r, outcome) ==
    LET r0 == _clear_errors(r)
    IN  IF outcome = "unreadable" THEN _record_error(r0, "Scenario load failed")
        ELSE IF outcome = "load_raises"
        THEN _record_error([r0 EXCEPT !.sim = TRUE], "Scenario load failed")
        ELSE IF outcome = "import_failed"
        THEN _record_error([r0 EXCEPT !.sim = TRUE], "Controller import failed")
        ELSE [r0 EXCEPT !.sim = TRUE]

\* the reload button, the dropdown
_load_sim(outcome) ==
    /\ runner' = LoadedSim(runner, outcome)
    /\ UNCHANGED << sim_vars, design >>

\* RunnerApp._toggle_play, the hover menu's Play entry
_toggle_play ==
    /\ runner' = IF runner.error_log # << >> THEN [runner EXCEPT !.playing = FALSE]
                 ELSE [runner EXCEPT !.playing = ~@,
                                     !.btn_play = IF runner.playing THEN "Play" ELSE "Pause"]
    /\ UNCHANGED << sim_vars, design >>

\* RunnerApp._handle_ui_event, btn_play pressed
PlayButton ==
    /\ runner' = IF runner.error_log # << >>
                 THEN [runner EXCEPT !.playing = FALSE, !.btn_play = "Play"]
                 ELSE [runner EXCEPT !.playing = ~@,
                                     !.btn_play = IF runner.playing THEN "Play" ELSE "Pause"]
    /\ UNCHANGED << sim_vars, design >>

\* RunnerApp.run, KEYDOWN K_SPACE while the editor is not focused
SpaceKey ==
    /\ runner' = [runner EXCEPT !.playing = ~@,
                                !.btn_play = IF runner.playing THEN "Play" ELSE "Pause"]
    /\ UNCHANGED << sim_vars, design >>

\* RunnerApp._step_once, btn_step and K_RIGHT: playback stops and one tick is run
_step_once(outcome) ==
    /\ runner' = LET r == [runner EXCEPT !.playing = FALSE, !.btn_play = "Play"]
                 IN  IF runner.sim THEN Advanced(r, outcome) ELSE r
    /\ UNCHANGED << sim_vars, design >>

\* RunnerApp.run, the frame after its events: the simulation advances while playing
Frame(outcome) ==
    /\ runner.playing /\ runner.sim
    /\ runner' = Advanced(runner, outcome)
    /\ UNCHANGED << sim_vars, design >>

\* RunnerApp._reload_code and btn_reload_code
_reload_code(failed) ==
    /\ runner.sim
    /\ runner' = IF failed THEN _record_error(runner, "Controller reload failed") ELSE runner
    /\ UNCHANGED << sim_vars, design >>

\* btn_clear_errors
ClearErrors ==
    /\ runner' = _clear_errors(runner)
    /\ UNCHANGED << sim_vars, design >>

\* RunnerApp._reset_pose
_reset_pose ==
    /\ runner.sim
    /\ runner' = [runner EXCEPT !.playing = FALSE, !.btn_play = "Play"]
    /\ UNCHANGED << sim_vars, design >>

\* RunnerApp.__init__ ends with _load_sim()
InitRunner ==
    /\ Constructed
    /\ design = NoDesign
    /\ \E outcome \in LoadOutcomes : runner = LoadedSim(RunnerApp, outcome)

NextRunner ==
    \/ \E outcome \in LoadOutcomes : _load_sim(outcome)
    \/ _toggle_play
    \/ PlayButton
    \/ SpaceKey
    \/ \E outcome \in StepOutcomes : _step_once(outcome)
    \/ \E outcome \in StepOutcomes : Frame(outcome)
    \/ \E failed \in BOOLEAN : _reload_code(failed)
    \/ ClearErrors
    \/ _reset_pose

\* a user at the runner's transport
SpecRunner == InitRunner /\ [][NextRunner]_vars

\* ------------------------------------------------------------------------
\* Properties
\* ------------------------------------------------------------------------
\* C1: a step() call that returns has run its phases in the order sensors, controller,
\* integrate, joints, contacts, displacement check, (trace,) advance of time and
\* step_index; the readings it kept, and those it passed to the controller hook if it
\* invoked it, are the readings of the bodies as the call found them.
C1_PhaseOrder ==
    (last_call = "step" /\ raised = None) =>
        /\ done = << "sensors", "controller", "integrate", "joints", "contacts", "sanity",
                     "trace", "advance" >>
        /\ last_sensor_readings = _update_sensors(sensors, entry.bodies)
        /\ invoked => passed = _update_sensors(sensors, entry.bodies)

\* a tick that invoked the controller and moved the sensed bodies: readings taken after
\* it would differ from those the hook got
C1_Witness ==
    /\ last_call = "step" /\ raised = None
    /\ invoked
    /\ passed # << >>
    /\ passed # _update_sensors(sensors, bodies)
    /\ step_index = entry.step_index + 1

\* C2: a raising controller hook leaves its error stored and step() returns; a step()
\* that finds an error stored does not invoke the hook and leaves the error stored; the
\* step() after clear_controller_error() invokes the hook of the instance again.
C2_ControllerErrorPauses ==
    last_call = "step" =>
        /\ raised = None
        /\ (invoked /\ Program(controller_module, entry.step_index) = "fail")
               => last_controller_error = "Traceback"
        /\ entry.last_controller_error # None
               => (~invoked /\ last_controller_error = entry.last_controller_error)
        /\ (before_last.call = "clear_controller_error" /\ entry.controller_instance)
               => invoked

\* a tick right after clear_controller_error() cleared a stored error invoked the hook
C2_Witness ==
    /\ last_call = "step"
    /\ before_last.call = "clear_controller_error"
    /\ before_last.error = "Traceback"
    /\ invoked

\* C3: every step() call returns normally, whatever sensors, controller, motors and
\* trace callback do.
C3_StepNeverRaises == last_call = "step" => raised = None

\* the bodies a tick without controller leaves: integrate, joints, contacts and the
\* displacement check on what the call found
PhysicsOnly(e, step_dt) ==
    With(_integrate_bodies(e.bodies, step_dt, gravity, None), LAMBDA integrated :
    With(_solve_joints(e.joints, integrated.bodies, step_dt), LAMBDA joined :
    With(_solve_contacts(joined.bodies, integrated.warning), LAMBDA touched :
        _check_step_sanity(touched.bodies, Poses(e.bodies), touched.warning).bodies)))

\* C4: a step() call that returns has advanced step_index by 1 and time by its dt (the
\* scenario timestep when none is given) and has integrated, solved joints and resolved
\* contacts, also when the hook raised or was paused: a paused tick leaves the bodies
\* exactly as the physics alone makes them.
C4_EveryStepAdvances ==
    (last_call = "step" /\ raised = None) =>
        /\ step_index = entry.step_index + 1
        /\ time = entry.time + (IF last_arg.given THEN last_arg.dt ELSE entry.dt)
        /\ {"integrate", "joints", "contacts"} \subseteq {done[i] : i \in 1..Len(done)}
        /\ entry.last_controller_error # None =>
               bodies = PhysicsOnly(entry, IF last_arg.given THEN last_arg.dt ELSE entry.dt)

\* a paused tick with a dt of the caller's that moved a body
C4_Witness ==
    /\ last_call = "step" /\ raised = None
    /\ entry.last_controller_error = "Traceback"
    /\ last_arg.given
    /\ Poses(bodies) # Poses(entry.bodies)

\* C5: apply_snapshot() called right after snapshot() with its result leaves time,
\* step_index and every body's pose and velocities as they were.
C5_RoundTrip ==
    (last_call = "apply_snapshot" /\ before_last.call = "snapshot") =>
        /\ time = entry.time
        /\ step_index = entry.step_index
        /\ bodies = entry.bodies

\* a round trip after two ticks with a body turned, turning and moving
C5_Witness ==
    /\ last_call = "apply_snapshot" /\ before_last.call = "snapshot"
    /\ step_index >= 2
    /\ \E i \in 1..Len(bodies) :
           /\ bodies[i].linear_velocity # <<0, 0>> /\ bodies[i].angular_velocity # 0
           /\ bodies[i].pose[3] # 0

\* C6: the snapshot the caller keeps holds what snapshot() found, whatever was called
\* since; apply_snapshot() of it puts time, step_index and every body it names back to
\* that.
C6_SnapshotIsValue ==
    captured # << >> =>
        /\ snap = << SnapshotOf(captured[1].time, captured[1].step_index, captured[1].bodies) >>
        /\ last_call = "apply_snapshot" =>
               /\ time = captured[1].time
               /\ step_index = captured[1].step_index
               /\ \A i \in 1..Len(bodies) : \A j \in 1..Len(captured[1].bodies) :
                      bodies[i].name = captured[1].bodies[j].name =>
                          /\ bodies[i].pose = captured[1].bodies[j].pose
                          /\ bodies[i].linear_velocity = captured[1].bodies[j].linear_velocity
                          /\ bodies[i].angular_velocity = captured[1].bodies[j].angular_velocity

\* a snapshot applied after ticks that had moved the bodies away from what it holds
C6_Witness ==
    /\ captured # << >>
    /\ last_call = "apply_snapshot" /\ before_last.call = "step"
    /\ entry.scenario = captured[1].scenario
    /\ entry.step_index >= captured[1].step_index + 2
    /\ Poses(entry.bodies) # Poses(captured[1].bodies)

\* C7: apply_snapshot() raises nothing, leaves the registry's names as they are, leaves
\* a body the snapshot does not name untouched, and gives a body it names the snapshot's
\* pose and velocities and nothing else.
C7_ApplyFrame ==
    (last_call = "apply_snapshot" /\ snap # << >>) =>
        /\ raised = None
        /\ Len(bodies) = Len(entry.bodies)
        /\ \A i \in 1..Len(bodies) :
               IF bodies[i].name \in Names(snap[1].bodies)
               THEN LET e == snap[1].bodies[IndexOf(snap[1].bodies, bodies[i].name)]
                    IN  bodies[i] = [entry.bodies[i] EXCEPT
                                        !.pose = << e.pose.x, e.pose.y, e.pose.theta >>,
                                        !.linear_velocity = e.lin_vel,
                                        !.angular_velocity = e.ang_vel]
               ELSE bodies[i] = entry.bodies[i]

\* a snapshot applied that names a body the registry has not, misses one it has, and
\* moves one both have
C7_Witness ==
    /\ last_call = "apply_snapshot" /\ snap # << >>
    /\ Names(snap[1].bodies) \ Names(bodies) # {}
    /\ Names(bodies) \ Names(snap[1].bodies) # {}
    /\ \E i \in 1..Len(bodies) :
           bodies[i].name \in Names(snap[1].bodies) /\ bodies[i] # entry.bodies[i]

\* C8: reposition_robot() and reset_to_spawn() leave every joint's lambda_accum 0.
C8_TeleportResetsJoints ==
    last_call \in {"reposition_robot", "reset_to_spawn"} =>
        \A i \in 1..Len(joints) : joints[i].lambda_accum = 0

\* a teleport that found a joint with accumulated multiplier
C8_Witness ==
    /\ last_call = "reposition_robot"
    /\ \E i \in 1..Len(entry.joints) : entry.joints[i].lambda_accum # 0
    /\ joints # << >>

OnBench == loads = 0 /\ last_call \in {"step", "_solve_contacts", "command"}

\* C11: a body whose can_move is false has, after a step() call, the pose, linear and
\* angular velocity it had before it, whatever the controller commanded its motors; a
\* contact resolution and a motor command called on their own leave it so as well,
\* also where two pinned bodies overlap or are joined.
C11_PinnedBodiesStay ==
    (last_call \in {"step", "_solve_contacts", "command"} /\ raised = None) =>
        /\ Len(bodies) = Len(entry.bodies)
        /\ \A i \in 1..Len(bodies) :
               ~entry.bodies[i].can_move => BodyStates(bodies)[i] = BodyStates(entry.bodies)[i]

\* a step in which the controller drove the wheel of a pinned, spinning body that
\* overlaps another pinned body it is joined to off length, while a free body moved
C11_Witness ==
    /\ OnBench /\ last_call = "step" /\ raised = None /\ invoked
    /\ Len(bodies) = 3 /\ Len(joints) = 1 /\ Len(motors) = 1
    /\ ~bodies[1].can_move /\ ~bodies[2].can_move
    /\ bodies[1].linear_velocity # <<0, 0>> /\ bodies[1].angular_velocity # 0
    /\ motors[1].parent = bodies[1].name /\ motors[1].last_command # 0
    /\ collision_manifold(bodies[1], bodies[2]).overlap
    /\ joints[1].cfg.parent = bodies[1].name /\ joints[1].cfg.child = bodies[2].name
    /\ bodies[3].can_move /\ bodies[3].pose # entry.bodies[3].pose

\* the i-th body of bs touches no other body
Alone(i, bs) ==
    \A j \in 1..Len(bs) :
        j # i => ~collision_manifold(bs[IF i < j THEN i ELSE j], bs[IF i < j THEN j ELSE i]).overlap

\* every pose and velocity component of the body is finite
_finite_pose(body) ==
    /\ isfinite(body.pose[1]) /\ isfinite(body.pose[2]) /\ isfinite(body.pose[3])
    /\ isfinite(body.linear_velocity[1]) /\ isfinite(body.linear_velocity[2])
    /\ isfinite(body.angular_velocity)

\* the latest call was a step() on the bench that returned
BenchStepped == OnBench /\ last_call = "step" /\ raised = None /\ Len(bodies) = Len(entry.bodies)

\* the bodies a step() integrates
Free(body) == body.can_move /\ body.mass > 0

\* the linear velocity w has the magnitude speed and the direction of v
Rescaled(v, w, speed) ==
    /\ Hypot(w[1], w[2]) = speed
    /\ v[1] * w[2] = v[2] * w[1]
    /\ v[1] * w[1] + v[2] * w[2] > 0

\* C12: a movable body in contact with nothing that enters step() with a linear speed
\* above max_linear_speed leaves it with a linear velocity of magnitude exactly
\* max_linear_speed in the direction it had, and last_physics_warning is set.
C12_SpeedAtCeiling ==
    BenchStepped =>
        \A i \in 1..Len(bodies) :
            ( /\ Free(entry.bodies[i]) /\ _finite_pose(entry.bodies[i])
              /\ Alone(i, entry.bodies) /\ Alone(i, bodies)
              /\ Hypot(entry.bodies[i].linear_velocity[1], entry.bodies[i].linear_velocity[2])
                     > max_linear_speed )
            => /\ Rescaled(entry.bodies[i].linear_velocity, bodies[i].linear_velocity,
                           max_linear_speed)
               /\ last_physics_warning # None

\* C13: a movable body that enters step() with a pose component that is not finite has
\* at return the origin pose, all components finite, and last_physics_warning is set.
C13_BrokenPoseReset ==
    BenchStepped =>
        \A i \in 1..Len(bodies) :
            (Free(entry.bodies[i]) /\ ~_finite_pose(entry.bodies[i]))
            => bodies[i].pose = <<0, 0, 0>> /\ last_physics_warning # None

Unchecked(e, step_dt) ==
    With(_integrate_bodies(e.bodies, step_dt, gravity, None), LAMBDA integrated :
    With(_solve_joints(e.joints, integrated.bodies, step_dt), LAMBDA joined :
        _solve_contacts(joined.bodies, integrated.warning).bodies))

\* the translation from pose p to pose q
Shift(p, q) == << SubF(q[1], p[1]), SubF(q[2], p[2]) >>

\* d is the translation u cut to the length limit along u's direction, each component
\* rounded to the resolution, by which the length may fall short
CutTo(d, u, limit) ==
    /\ Hypot(d[1], d[2]) \in {limit - 1, limit}
    /\ Abs(d[1] * u[2] - d[2] * u[1]) <= Abs(u[1]) + Abs(u[2])
    /\ d[1] * u[1] + d[2] * u[2] > 0

\* C15: with max_step_translation > 0, a movable body is after step() no further than
\* max_step_translation from where the call found it; where the tick had moved it
\* further, it lies at max_step_translation along the direction of that displacement,
\* with the heading the tick gave it; where the displacement is not finite, it has the
\* pose the call found.
C15_StepTranslationBounded ==
    (BenchStepped /\ max_step_translation > 0) =>
        \A i \in 1..Len(bodies) :
            bodies[i].can_move =>
                LET p == entry.bodies[i].pose
                    q == bodies[i].pose
                    u == Unchecked(entry, entry.dt)[i].pose
                IN  IF ~(isfinite(p[1]) /\ isfinite(p[2])) THEN q = p
                    ELSE /\ isfinite(q[1]) /\ isfinite(q[2])
                         /\ Hypot(q[1] - p[1], q[2] - p[2]) <= max_step_translation
                         /\ ~invoked =>
                               IF Hypot(u[1] - p[1], u[2] - p[2]) > max_step_translation
                               THEN CutTo(Shift(p, q), Shift(p, u), max_step_translation)
                                    /\ q[3] = u[3]
                               ELSE q = u

\* a body thrown obliquely, three times further in one tick than the limit allows
C15_Witness ==
    /\ BenchStepped /\ ~invoked /\ Len(bodies) = 1 /\ bodies[1].can_move
    /\ last_physics_warning = "large step clamped"
    /\ Shift(entry.bodies[1].pose, Unchecked(entry, entry.dt)[1].pose) = <<900, 1200>>
    /\ Shift(entry.bodies[1].pose, bodies[1].pose) = <<300, 400>>

\* how far the first two bodies overlap along the axis of least penetration, 0 if not
\* at all
Overlap(bs) ==
    LET manifold == collision_manifold(bs[1], bs[2])
    IN  IF manifold.overlap THEN manifold.penetration ELSE 0

\* the caller found two movable squares of mass and inertia 1 without restitution or
\* friction, at rest, overlapping by 10 along x
SquaresAtRest(bs) ==
    /\ Len(bs) = 2
    /\ \A i \in 1..2 :
          /\ Free(bs[i]) /\ bs[i].mass = 1 /\ bs[i].moment_of_inertia = 1
          /\ bs[i].material = [friction |-> 0, restitution |-> 0]
          /\ bs[i].linear_velocity = <<0, 0>> /\ bs[i].angular_velocity = 0
    /\ collision_manifold(bs[1], bs[2]).normal[2] = 0
    /\ Overlap(bs) = 10

\* C16: two movable squares (mass 1, inertia 1, restitution 0, friction 0, at rest)
\* that overlap by 0.01 along x overlap by no more than contact_slop after one step()
\* with the default tunables.
C16_SeparatedToSlop ==
    (BenchStepped /\ step_index = 1 /\ SquaresAtRest(entry.bodies)) => Overlap(bodies) <= contact_slop

\* C16 as the code has it: one step() takes away the share contact_correction_percent
\* of the overlap beyond contact_slop, half of it on either square, which leaves an
\* overlap of 0.008.
C16_SeparatedByPercent ==
    (BenchStepped /\ step_index = 1 /\ SquaresAtRest(entry.bodies)) =>
        /\ Overlap(bodies) = 10 - MulMilli(10 - contact_slop, contact_correction_percent)
        /\ Overlap(bodies) = 8
        /\ entry.bodies[1].pose[1] - bodies[1].pose[1] = bodies[2].pose[1] - entry.bodies[2].pose[1]

\* the first step() on the two squares at rest, in a world without gravity
C16_Witness ==
    /\ BenchStepped /\ step_index = 1 /\ SquaresAtRest(entry.bodies) /\ gravity = <<0, 0>>
    /\ bodies[1].pose[1] < entry.bodies[1].pose[1]
    /\ bodies[2].pose[1] > entry.bodies[2].pose[1]

\* the caller found two movable bodies of equal mass that overlap and close in on each
\* other along the contact normal, with restitution 1 and without friction
HeadOn(bs) ==
    /\ Len(bs) = 2 /\ Free(bs[1]) /\ Free(bs[2]) /\ bs[1].mass = bs[2].mass
    /\ \A i \in 1..2 : bs[i].material = [friction |-> 0, restitution |-> 1000]
    /\ LET manifold == collision_manifold(bs[1], bs[2])
           rvx == bs[1].linear_velocity[1] - bs[2].linear_velocity[1]
           rvy == bs[1].linear_velocity[2] - bs[2].linear_velocity[2]
       IN  /\ manifold.overlap
           /\ rvx * manifold.normal[1] + rvy * manifold.normal[2] > 0
           /\ rvx * manifold.normal[2] = rvy * manifold.normal[1]

\* C17: two overlapping movable bodies of equal mass that approach each other head-on
\* along the normal, with restitution 1.0 and friction 0.0, have exchanged their linear
\* velocities after one contact resolution.
C17_VelocitiesExchanged ==
    (OnBench /\ last_call = "_solve_contacts" /\ HeadOn(entry.bodies)) =>
        /\ bodies[1].linear_velocity = entry.bodies[2].linear_velocity
        /\ bodies[2].linear_velocity = entry.bodies[1].linear_velocity

\* the robot names, on an actuator, a sensor or a joint, a body the registry lacks
MissingBody(robot_cfg, bs) ==
    \/ \E i \in 1..Len(robot_cfg.actuators) : robot_cfg.actuators[i].body \notin Names(bs)
    \/ \E i \in 1..Len(robot_cfg.sensors) : robot_cfg.sensors[i].body \notin Names(bs)
    \/ \E i \in 1..Len(robot_cfg.joints) :
          robot_cfg.joints[i].parent \notin Names(bs) \/ robot_cfg.joints[i].child \notin Names(bs)

\* C18: a load() of a scenario in which an actuator, a sensor or a joint names a body
\* that is not in the registry raises a configuration error, so that no step() runs on
\* it.
C18_LoadRejectsMissingBody ==
    (last_call = "load" /\ MissingBody(RobotConfig(scenario), bodies)) => raised = "ValueError"

\* the normal load WheelMotor._apply hands to the traction solver, as that bounds it
NormalLoad(motor, parent) ==
    Max2(0, IF motor.normal_force = << >>
            THEN DivR(parent.mass * motor.g_equiv, Max2(motor.wheel_count, 1))
            ELSE motor.normal_force[1])

\* the caller's latest call commanded the one wheel motor of the bench, mounted on a
\* body that can move
Commanded ==
    /\ OnBench /\ last_call = "command" /\ raised = None
    /\ Len(motors) = 1 /\ motors[1].parent \in Names(entry.bodies)
    /\ Free(entry.bodies[IndexOf(entry.bodies, motors[1].parent)])

\* the body the commanded motor is mounted on, as the command found it and as it is
ParentBefore == entry.bodies[IndexOf(entry.bodies, motors[1].parent)]

ParentNow == bodies[IndexOf(bodies, motors[1].parent)]

\* C19: a wheel motor commanded at its maximum value, forward or backward, while its
\* normal load is zero applies no impulse: linear and angular velocity of its parent are
\* what they were, and no quotient with a zero divisor is taken.
C19_NoLoadNoImpulse ==
    (Commanded /\ NormalLoad(motors[1], ParentBefore) = 0
               /\ Abs(motors[1].last_command) = motors[1].max_command) =>
        /\ ParentNow.linear_velocity = ParentBefore.linear_velocity
        /\ ParentNow.angular_velocity = ParentBefore.angular_velocity

\* full command ahead on a wheel with friction but an explicit normal force of zero, on a
\* chassis that drifts sideways
C19_Witness ==
    /\ Commanded /\ motors[1].normal_force = <<0>> /\ motors[1].last_command = 1000
    /\ motors[1].mu_long > 0 /\ motors[1].mu_lat > 0
    /\ ParentBefore.linear_velocity = <<0, 200>>
    /\ ParentNow = ParentBefore

\* heading of the commanded wheel, per mille
Forward == With(compose(ParentBefore.pose, motors[1].mount_pose), LAMBDA pose : << CosMilli(pose[3]), SinMilli(pose[3]) >>)

\* the change of the parent's linear velocity along the wheel's heading and across it:
\* the drive impulse and the lateral-slip impulse over the mass, per mille
DriveGain ==
    (ParentNow.linear_velocity[1] - ParentBefore.linear_velocity[1]) * Forward[1]
    + (ParentNow.linear_velocity[2] - ParentBefore.linear_velocity[2]) * Forward[2]

LateralGain ==
    (ParentNow.linear_velocity[2] - ParentBefore.linear_velocity[2]) * Forward[1]
    - (ParentNow.linear_velocity[1] - ParentBefore.linear_velocity[1]) * Forward[2]

\* C20: a wheel motor whose mu_long is zero or negative applies no drive impulse,
\* and one whose mu_lat is zero or negative no lateral-slip impulse, whatever the
\* command value and the normal load.
C20_NoFrictionNoImpulse ==
    Commanded =>
        /\ motors[1].mu_long <= 0 => DriveGain = 0
        /\ motors[1].mu_lat <= 0 => LateralGain = 0

\* mu * normalLoad * dt for a friction coefficient of the commanded wheel, in the
\* unit of DriveGain and LateralGain times the parent's mass
Cone(mu) ==
    1000 * DivR(MulMilli(mu, NormalLoad(motors[1], ParentBefore)) * entry.dt, 1000)

\* C21: a motor command applies to the parent body a longitudinal impulse of magnitude
\* at most mu_long * normalLoad * dt and a lateral-slip impulse of magnitude at most
\* mu_lat * normalLoad * dt.
C21_ImpulseWithinCone ==
    Commanded =>
        /\ Abs(DriveGain) * ParentBefore.mass <= Cone(motors[1].mu_long)
        /\ Abs(LateralGain) * ParentBefore.mass <= Cone(motors[1].mu_lat)

\* ------------------------------------------------------------------------
\* Teleporting the robot
\* ------------------------------------------------------------------------
\* the latest call was reposition_robot() on a loaded simulator
Repositioned == last_call = "reposition_robot" /\ entry.scenario # 0

\* the configured local pose of the robot body called name
LocalPose(name) ==
    LET cfgs == RobotConfig(entry.scenario).bodies IN cfgs[IndexOf(cfgs, name)].pose

\* C22: reposition_robot(pose, zero_velocity, set_as_spawn) sets every robot body's pose
\* to its configured local pose plus the given pose, component by component, zeroes the
\* body's linear and angular velocity exactly when zero_velocity is true, sets
\* spawn_pose exactly when set_as_spawn is true, and leaves the pose and velocity of
\* every other body, the time and the step index as they were.
C22_RepositionPlacesRobot ==
    Repositioned =>
        /\ Names(bodies) = Names(entry.bodies) /\ Len(bodies) = Len(entry.bodies)
        /\ \A i \in 1..Len(bodies) :
              LET was == entry.bodies[i]
                  now == bodies[i]
              IN  IF was.name \in Names(RobotConfig(entry.scenario).bodies)
                  THEN /\ now.pose = << LocalPose(was.name)[1] + last_arg.pose[1],
                                       LocalPose(was.name)[2] + last_arg.pose[2],
                                       LocalPose(was.name)[3] + last_arg.pose[3] >>
                       /\ now.linear_velocity = IF last_arg.zero_velocity THEN <<0, 0>>
                                                ELSE was.linear_velocity
                       /\ now.angular_velocity = IF last_arg.zero_velocity THEN 0
                                                 ELSE was.angular_velocity
                  ELSE /\ now.pose = was.pose
                       /\ now.linear_velocity = was.linear_velocity
                       /\ now.angular_velocity = was.angular_velocity
        /\ spawn_pose = IF last_arg.set_as_spawn THEN last_arg.pose ELSE entry.spawn_pose
        /\ time = entry.time
        /\ step_index = entry.step_index

\* a moving robot that has run a tick is teleported and stopped next to a terrain body
C22_Witness ==
    /\ Repositioned
    /\ last_arg.zero_velocity /\ ~last_arg.set_as_spawn
    /\ step_index > 0
    /\ \E i \in 1..Len(bodies) :
          /\ entry.bodies[i].name \in Names(RobotConfig(entry.scenario).bodies)
          /\ entry.bodies[i].linear_velocity # <<0, 0>>
          /\ entry.bodies[i].pose # bodies[i].pose
    /\ \E i \in 1..Len(bodies) :
          entry.bodies[i].name \notin Names(RobotConfig(entry.scenario).bodies)

\* ------------------------------------------------------------------------
\* Trace log
\* ------------------------------------------------------------------------
\* the latest call was a step() that returned
Stepped == last_call = "step" /\ raised = None

\* the dt of the latest step() call
TickDt == IF last_arg.given THEN last_arg.dt ELSE entry.dt

RoundTripped == design.loaded # << >>

\* C24: saving a robot design with save_robot_design and loading it back with
\* load_robot_design yields a robot configuration with the same number of bodies, the
\* same body names and the same body points as the saved one.
C24_DesignRoundTrip ==
    RoundTripped =>
        LET saved == design.robot.bodies
            loaded == design.loaded[1].bodies
        IN  /\ Len(loaded) = Len(saved)
            /\ \A i \in 1..Len(loaded) :
                  /\ loaded[i].name = saved[i].name
                  /\ loaded[i].points = saved[i].points

\* ------------------------------------------------------------------------
\* Joint solver
\* ------------------------------------------------------------------------
\* the latest call was one pass of the joint solver over a joint that has a movable body
JointSolved ==
    /\ loads = 0 /\ last_call = "_solve_joints"
    /\ Len(entry.bodies) = 2 /\ Len(joints) = 1
    /\ entry.bodies[1].can_move \/ entry.bodies[2].can_move

\* math.hypot, to one part in 3000 where the squares would leave the integer range
RECURSIVE HypotFar(_, _)
HypotFar(x, y) ==
    IF Abs(x) <= 30000 /\ Abs(y) <= 30000 THEN Hypot(x, y)
    ELSE 10 * HypotFar(x \div 10, y \div 10)

\* the distance between the anchors of the joint, which lie at the bodies' centres
AnchorDistance(bs) == HypotFar(bs[2].pose[1] - bs[1].pose[1], bs[2].pose[2] - bs[1].pose[2])

\* the multiplier increment of a pass that finds the anchor error, for the bodies the
\* call found
MultiplierFor(error) ==
    -DivR(error * 10000,
          (entry.dt \div 10) * (entry.dt \div 10)
              + (InvMass(entry.bodies[1]) + InvMass(entry.bodies[2])) \div 100000000)

\* C25: the joint solver's target anchor separation is 0 when lower_limit equals
\* upper_limit and upper_limit otherwise: the multiplier a pass accumulates is the one of
\* the anchor distance's error against that target.
C25_TargetSeparation ==
    JointSolved =>
        LET cfg == joints[1].cfg
            target == IF cfg.lower_limit = cfg.upper_limit THEN 0 ELSE cfg.upper_limit
        IN  joints[1].lambda_accum = MultiplierFor(AnchorDistance(entry.bodies) - target)

\* the translation d is no longer than limit
Within(d, limit) == Abs(d[1]) <= limit /\ Abs(d[2]) <= limit /\ Hypot(d[1], d[2]) <= limit

\* C26: in one pass of the joint solver the distance by which the positional correction
\* of a joint moves each body never exceeds max_penetration_correction, whatever the
\* anchor error and the masses of the two bodies.
C26_CorrectionWithinCap ==
    JointSolved =>
        \A i \in 1..2 :
            Within(Shift(entry.bodies[i].pose, bodies[i].pose), max_penetration_correction)

\* the body can_move but has no positive mass
Massless(body) == body.can_move /\ body.mass <= 0

\* C27: a body with can_move true but mass <= 0 is treated as immovable by every force
\* path: integration, contact resolution, joint solving and motor impulses leave its
\* pose and velocity as they were, in a step() and in each of its phases called alone.
C27_MasslessStays ==
    (/\ loads = 0
     /\ last_call \in {"step", "_solve_joints", "_solve_contacts", "command"}
     /\ Len(bodies) = Len(entry.bodies)) =>
        \A i \in 1..Len(bodies) :
            Massless(entry.bodies[i]) =>
                /\ bodies[i].pose = entry.bodies[i].pose
                /\ bodies[i].linear_velocity = entry.bodies[i].linear_velocity
                /\ bodies[i].angular_velocity = entry.bodies[i].angular_velocity

\* ------------------------------------------------------------------------
\* Wheel count
\* ------------------------------------------------------------------------
\* how many wheel motors are attached to the body called name
WheelsOn(name) == Cardinality({k \in 1..Len(motors) : motors[k].parent = name})

\* C28: actuators that specify no wheel_count give, after load(), every wheel motor of a
\* body the same wheel_count, the number of wheel motors on that body, so that the
\* body's normal load is shared equally between them.
C28_WheelCountShared ==
    (scenario # 0 /\ raised = None) =>
        \A k \in 1..Len(motors) : motors[k].wheel_count = WheelsOn(motors[k].parent)

\* the target separation of the joint as the solver takes it
TargetOf(cfg) == IF cfg.lower_limit = cfg.upper_limit THEN cfg.upper_limit ELSE 0

\* C29: for a joint between two bodies of which at least one is movable, one pass of the
\* joint solver never increases the absolute error |distance - target| of the anchor
\* separation: the clamped correction moves the anchors toward the target and not
\* beyond it.
C29_ErrorNeverGrows ==
    JointSolved =>
        Abs(AnchorDistance(bodies) - TargetOf(joints[1].cfg))
            <= Abs(AnchorDistance(entry.bodies) - TargetOf(joints[1].cfg))

\* ------------------------------------------------------------------------
\* Runner transport
\* ------------------------------------------------------------------------
\* C30: in the runner the simulation is never playing while the error log is not
\* empty: recording an error pauses playback, and neither the play button, the hover
\* menu's toggle nor the space key resumes it until the errors are cleared.
C30_NeverPlayingWithErrors == ~(runner.playing /\ runner.error_log # << >>)
====
